---- MODULE Spec2Model ----
(***************************************************************************)
(* Model of the ai-transcriber client: the speaker-identity resolver of    *)
(* VerificationDashboard, the bounded-concurrency batch uploader and batch *)
(* poller of BatchProgress, and the single-job flow of App / api.pollStatus.*)
(*                                                                         *)
(* JavaScript strings are modelled as sequences of one-character strings;  *)
(* Cyrillic literals of the source are transliterated to ASCII.            *)
(***************************************************************************)
EXTENDS Integers, Sequences, FiniteSets, TLC

VARIABLES
  \* ---- VerificationDashboard (src/unnamed/part_003) ----
  candidates,     \* data.candidates
  dataSpeakers,   \* data.detected_speakers (the objects of the ProjectData)
  dataSegments,   \* data.preview_transcript
  speakers,       \* useState speakers
  shared,         \* indexes i where speakers[i] is the very object dataSpeakers[i]
  segments,       \* useState segments
  lastOp,         \* the last handler that ran, and how it ended
  opCount,        \* number of handler calls so far
  exportRequest,  \* the body of the latest POST /projects/{id}/export, if any
  \* ---- BatchProgress (src/components/BatchProgress.tsx) ----
  nFiles,         \* props.files.length
  upc,            \* position of uploadAll: "off", "preload", "uploading", "ended"
  cancelled,      \* the closure flag set by the effect cleanup (unmount)
  upSt,           \* position of each uploadOne(i): "waiting", "inflight", "finished"
  updated,        \* uploadAll's local array of trackers
  trackers,       \* useState trackers
  doneCount,      \* uploadAll's local counter
  uploadedCount,  \* useState uploadedCount
  bState,         \* useState state: "uploading", "processing", "done"
  projectIds,     \* the ids captured by the polling effect
  pollActive,     \* the setInterval of the polling effect is registered
  pollsIssued,    \* number of api.batchStatus requests sent
  requests,       \* status requests the server has not answered yet
  responses,      \* status responses under way to the client
  batchFiles,     \* useState batchFiles
  completedCount, \* useState completedCount
  errorCount,     \* useState errorCount
  doneBy,         \* what set state 'done': "none", "preload", "noIds", "poll"
  jobStatus,      \* server: status of the job created for each file ("none": no job)
  \* ---- App and api.pollStatus (src/App.tsx, src/unnamed/part_000) ----
  status,         \* useState status
  apc,            \* position of handleUpload: "idle", "uploadFile", "statusFetch",
                  \* "waiting", "resultFetch"
  abortRef,       \* abortRef.current is the controller (TRUE) or null (FALSE)
  aborted,        \* controller.signal.aborted of the latest controller
  pollIter,       \* iteration of the while loop of pollStatus
  timers,         \* iterations whose setTimeout is pending
  listeners,      \* iterations whose 'abort' listener is registered on the signal
  progressStep,   \* useState progressStep
  projectData,    \* useState projectData is loaded
  lastToast,      \* the last toast added: "none", "cancelled", "error", "success"
  toastText,      \* the text of the last toast added
  observed,       \* the last status response pollStatus has read for this job
  submissions,    \* number of handleUpload calls so far
  \* ---- the server's record of the job created by api.uploadFile ----
  job,            \* its status ("none": no job created yet)
  speakersDict,   \* result.speakers of its GET /projects/{id} response
  offsets,        \* the provider's start offset (ms) of each segment of the job
  \* ---- UploadForm and BatchUploadForm ----
  link,           \* UploadForm: useState link
  linkError,      \* UploadForm: useState error
  posted,         \* the url of the latest POST /projects request, if any
  files,          \* BatchUploadForm: useState files (their extensions)
  filesError,     \* BatchUploadForm: useState error
  startedBatch,   \* the files of the latest onStartBatch call, if any
  \* ---- TranscriptPreview (src/components/ProcessingStatus.tsx) ----
  editingIndex,   \* useState editingIndex (from 1; 0 stands for null)
  editText        \* useState editText

dashVars == <<candidates, dataSpeakers, dataSegments, speakers, shared,
              segments, lastOp, opCount, exportRequest>>

batchVars == <<nFiles, upc, cancelled, upSt, updated, trackers, doneCount,
               uploadedCount, bState, projectIds, pollActive, pollsIssued, requests,
               responses, batchFiles, completedCount, errorCount, doneBy, jobStatus>>

appVars == <<status, apc, abortRef, aborted, pollIter, timers, listeners,
             progressStep, projectData, lastToast, toastText, observed,
             submissions>>

srvVars == <<job, speakersDict, offsets>>

formVars == <<link, linkError, posted, files, filesError, startedBatch>>

previewVars == <<editingIndex, editText>>

vars == <<dashVars, batchVars, appVars, srvVars, formVars, previewVars>>

----------------------------------------------------------------------------
\* Bounds of the model

NumTags == 3
NumSegs == 2
MaxOps == 2
MaxFiles == 10
MaxPollFiles == 2
MaxPolls == 2
MaxStatusPolls == 3
MaxSubmissions == 2
MaxPick == 2
MaxDictTags == 3
MaxDuration == 4
MaxOffsets == 2
MaxCycles == 1

----------------------------------------------------------------------------
\* JavaScript values

Undefined == <<"#undefined">>
Null == <<"#null">>

Truthy(s) == s \notin {Undefined, Null, <<>>}

\* a || b
Or(a, b) == IF Truthy(a) THEN a ELSE b

TagStr == <<"1", "2", "3", "4", "5", "6", "7", "8", "9", "10", "11", "12">>
Tag(i) == <<TagStr[i]>>

LowerLetters ==
  <<"a", "b", "c", "d", "e", "f", "g", "h", "i", "j", "k", "l", "m", "n",
    "o", "p", "q", "r", "s", "t", "u", "v", "w", "x", "y", "z">>
UpperLetters ==
  <<"A", "B", "C", "D", "E", "F", "G", "H", "I", "J", "K", "L", "M", "N",
    "O", "P", "Q", "R", "S", "T", "U", "V", "W", "X", "Y", "Z">>
UpperOf ==
  [c \in { LowerLetters[k] : k \in 1..26 } |->
     UpperLetters[CHOOSE k \in 1..26 : LowerLetters[k] = c]]

ToUpperCase(s) ==
  [i \in 1..Len(s) |-> IF s[i] \in DOMAIN UpperOf THEN UpperOf[s[i]] ELSE s[i]]

\* s.substring(0, n)
Substring0(s, n) == IF Len(s) <= n THEN s ELSE SubSeq(s, 1, n)

\* Math.trunc in place of Math.round
TruncPercent(a, b) == (100 * a) \div b

\* Math.round(a / b * 100) for integers a >= 0, b > 0
RoundPercent(a, b) == (200 * a + b) \div (2 * b)

RECURSIVE SumDurations(_)
SumDurations(sp) ==
  IF sp = <<>> THEN 0 ELSE Head(sp).duration_sec + SumDurations(Tail(sp))

\* array.findIndex(s => s.tag_id === tagId); 0 stands for -1
FindIndex(sp, tagId) ==
  IF \E i \in 1..Len(sp) : sp[i].tag_id = tagId
  THEN CHOOSE i \in 1..Len(sp) :
         sp[i].tag_id = tagId /\ \A j \in 1..(i - 1) : sp[j].tag_id /= tagId
  ELSE 0

----------------------------------------------------------------------------
\* Backend result (get_job_result), the input of getVerificationData

TechMarker == <<"A", "Z", "K">>

BackendSpeakers ==
  { [suggested_name |-> Undefined,               duration_sec |-> 0],
    [suggested_name |-> TechMarker,              duration_sec |-> 2],
    [suggested_name |-> <<"i", "v", "a", "n">>,  duration_sec |-> 1] }

Texts == { <<"h", "i">>, <<"(", "x", ")">> }

\* api.getVerificationData: detected_speakers
DetectedSpeakers(dict) ==
  LET totalDuration == SumDurations(dict)
  IN [i \in 1..Len(dict) |->
        [tag_id |-> Tag(i),
         candidate_id |-> Tag(i),
         custom_name |-> dict[i].suggested_name,
         custom_abbr |-> Undefined,
         total_duration_ms |-> dict[i].duration_sec * 1000,
         percentage |-> IF totalDuration > 0
                        THEN RoundPercent(dict[i].duration_sec, totalDuration)
                        ELSE 0,
         is_tech |-> (dict[i].suggested_name = TechMarker)]]

\* api.getVerificationData: candidates
CandidatesOf(detected) ==
  [i \in 1..Len(detected) |->
     [id |-> detected[i].tag_id,
      name |-> Or(detected[i].custom_name,
                  <<"S", "p", "e", "a", "k", "e", "r", " ">> \o detected[i].tag_id),
      abbr |-> ToUpperCase(Substring0(
                 Or(detected[i].custom_name, <<"S">> \o detected[i].tag_id), 3))]]

\* api.getVerificationData: preview_transcript
PreviewTranscript(segs) ==
  [i \in 1..Len(segs) |->
     [timecode |-> segs[i].timecode, tag_id |-> segs[i].speaker, text |-> segs[i].text]]

----------------------------------------------------------------------------
\* VerificationDashboard

Payload(s) ==
  [candidate_id |-> s.candidate_id, custom_name |-> s.custom_name,
   custom_abbr |-> s.custom_abbr]

WithPayload(s, p) ==
  [s EXCEPT !.candidate_id = p.candidate_id, !.custom_name = p.custom_name,
            !.custom_abbr = p.custom_abbr]

\* handleSwap without the temporaries: the second object reads the fields
\* the first has already received
SwapNoTemp(sp, tagId1, tagId2) ==
  LET s1Index == FindIndex(sp, tagId1)
      s2Index == FindIndex(sp, tagId2)
  IN IF s1Index = 0 \/ s2Index = 0 THEN sp
     ELSE [sp EXCEPT ![s1Index] = WithPayload(sp[s1Index], Payload(sp[s2Index]))]

\* handleSwap exchanging the two array elements instead of their payloads
SwapWholeObjects(sp, tagId1, tagId2) ==
  LET s1Index == FindIndex(sp, tagId1)
      s2Index == FindIndex(sp, tagId2)
  IN IF s1Index = 0 \/ s2Index = 0 THEN sp
     ELSE [sp EXCEPT ![s1Index] = sp[s2Index], ![s2Index] = sp[s1Index]]

\* handleSwap: the array handed to setSpeakers, computed from the rendered
\* speakers; the two objects are updated in place through a temporary.
SwapResult(sp, tagId1, tagId2) ==
  LET s1Index == FindIndex(sp, tagId1)
      s2Index == FindIndex(sp, tagId2)
  IN IF s1Index = 0 \/ s2Index = 0 THEN sp
     ELSE LET temp == Payload(sp[s1Index])
              afterS1 == [sp EXCEPT ![s1Index] = WithPayload(@, Payload(sp[s2Index]))]
          IN [afterS1 EXCEPT ![s2Index] = WithPayload(@, temp)]

\* handleSwap whose guard lets an absent tag through: reading a field of
\* newSpeakers[-1] raises a TypeError
SwapOutcomeThrowing(sp, tagId1, tagId2) ==
  [speakers |-> SwapResult(sp, tagId1, tagId2),
   threw |-> IF FindIndex(sp, tagId1) = 0 \/ FindIndex(sp, tagId2) = 0
             THEN "TypeError" ELSE "none"]

\* handleSwap as a whole: the new state and the error it raises (it has no
\* throw statement and dereferences only objects it has found)
SwapOutcome(sp, tagId1, tagId2) ==
  [speakers |-> SwapResult(sp, tagId1, tagId2), threw |-> "none"]

\* handleUpdateSpeaker without the line candidate_id: null
UpdateKeepsCandidate(prev, tagId, field, value) ==
  [i \in 1..Len(prev) |->
     IF prev[i].tag_id /= tagId THEN prev[i]
     ELSE IF field = "name"
          THEN [prev[i] EXCEPT !.custom_name = value]
          ELSE [prev[i] EXCEPT !.custom_abbr = value]]

\* setSpeakers(prev => prev.map(...)) of handleUpdateSpeaker
UpdateSpeakerResult(prev, tagId, field, value) ==
  [i \in 1..Len(prev) |->
     IF prev[i].tag_id /= tagId THEN prev[i]
     ELSE IF field = "name"
          THEN [prev[i] EXCEPT !.candidate_id = Null, !.custom_name = value]
          ELSE [prev[i] EXCEPT !.candidate_id = Null, !.custom_abbr = value]]

CustomChoice == <<"c", "u", "s", "t", "o", "m">>
PlaceholderName == <<"N", "o", "v", "y", "j", " ", "s", "p", "i", "k", "e", "r">>
PlaceholderAbbr == <<"N", "O", "V">>

\* data.candidates.find(c => c.id === candidateId)?.<field>
CandidateField(cands, candidateId, field) ==
  IF \E i \in 1..Len(cands) : cands[i].id = candidateId
  THEN LET c == cands[CHOOSE i \in 1..Len(cands) :
                    cands[i].id = candidateId
                    /\ \A j \in 1..(i - 1) : cands[j].id /= candidateId]
       IN IF field = "name" THEN c.name ELSE c.abbr
  ELSE Undefined

\* handleCandidateSelect binding the candidate id alone, the stored custom
\* name and abbreviation staying as they were
CandidateSelectKeepsCustom(prev, cands, tagId, candidateId) ==
  [i \in 1..Len(prev) |->
     IF prev[i].tag_id /= tagId THEN prev[i]
     ELSE IF candidateId = CustomChoice
          THEN [prev[i] EXCEPT !.candidate_id = Null,
                               !.custom_name = PlaceholderName,
                               !.custom_abbr = PlaceholderAbbr]
          ELSE [prev[i] EXCEPT !.candidate_id = candidateId]]

\* handleCandidateSelect without the branch for 'custom'
CandidateSelectNoCustom(prev, cands, tagId, candidateId) ==
  [i \in 1..Len(prev) |->
     IF prev[i].tag_id /= tagId THEN prev[i]
     ELSE [prev[i] EXCEPT !.candidate_id = candidateId,
                          !.custom_name = CandidateField(cands, candidateId, "name"),
                          !.custom_abbr = CandidateField(cands, candidateId, "abbr")]]

\* setSpeakers(prev => prev.map(...)) of handleCandidateSelect
CandidateSelectResult(prev, cands, tagId, candidateId) ==
  [i \in 1..Len(prev) |->
     IF prev[i].tag_id /= tagId THEN prev[i]
     ELSE IF candidateId = CustomChoice
          THEN [prev[i] EXCEPT !.candidate_id = Null,
                               !.custom_name = PlaceholderName,
                               !.custom_abbr = PlaceholderAbbr]
          ELSE [prev[i] EXCEPT !.candidate_id = candidateId,
                               !.custom_name = CandidateField(cands, candidateId, "name"),
                               !.custom_abbr = CandidateField(cands, candidateId, "abbr")]]

\* s.candidate_id ? candidates.find(c => c.id === s.candidate_id)?.<field>
\*                : s.custom_<field>
ResolveField(s, cands, field) ==
  IF Truthy(s.candidate_id) THEN CandidateField(cands, s.candidate_id, field)
  ELSE IF field = "name" THEN s.custom_name ELSE s.custom_abbr

\* SpeakerMatrix.getSpeakerName: the value of the name input
MatrixName(s, cands) ==
  IF Truthy(s.candidate_id)
  THEN Or(CandidateField(cands, s.candidate_id, "name"), <<"U", "n", "k", "n", "o", "w", "n">>)
  ELSE Or(s.custom_name, <<"S", "p", "e", "a", "k", "e", "r", " ">> \o s.tag_id)

\* SpeakerMatrix.getSpeakerAbbr: the value of the abbreviation input
MatrixAbbr(s, cands) ==
  IF Truthy(s.candidate_id)
  THEN Or(CandidateField(cands, s.candidate_id, "abbr"), <<"U", "N", "K">>)
  ELSE Or(s.custom_abbr, <<"S">> \o s.tag_id)

\* TranscriptPreview.getSpeakerAbbr: the abbreviation put before the
\* segments of tagId and into the header line
PreviewAbbr(sp, cands, tagId) ==
  LET idx == FindIndex(sp, tagId)
  IN IF idx = 0 THEN tagId
     ELSE IF Truthy(sp[idx].candidate_id)
          THEN Or(CandidateField(cands, sp[idx].candidate_id, "abbr"), <<"U", "N", "K">>)
          ELSE Or(sp[idx].custom_abbr, <<"S">> \o tagId)

\* TranscriptPreview, header line of s: {name?.toUpperCase()}
PreviewHeaderName(s, cands) ==
  LET name == ResolveField(s, cands, "name")
  IN IF name \in {Undefined, Null} THEN <<>> ELSE ToUpperCase(name)

ExportNamePrefix == <<"S", "p", "i", "k", "e", "r", " ">>

\* handleDownload: the entry stored in mapping[s.tag_id]
MappingEntry(s, cands) ==
  [name |-> Or(ResolveField(s, cands, "name"), ExportNamePrefix \o s.tag_id),
   abbreviation |-> Or(ResolveField(s, cands, "abbr"), <<>>)]

\* Object.keys(mapping): the tags in the order they were first stored
RECURSIVE MappingKeys(_)
MappingKeys(sp) ==
  IF sp = <<>> THEN <<>>
  ELSE LET rest == MappingKeys(SubSeq(sp, 1, Len(sp) - 1))
           t == sp[Len(sp)].tag_id
       IN IF \E k \in 1..Len(rest) : rest[k] = t THEN rest ELSE Append(rest, t)

\* api.confirmMapping sending speaker_label and mapped_name only
ExportMappingsNoAbbr(sp, cands) ==
  LET keys == MappingKeys(sp)
      last(t) == CHOOSE i \in 1..Len(sp) :
                   sp[i].tag_id = t /\ \A j \in (i + 1)..Len(sp) : sp[j].tag_id /= t
  IN [k \in 1..Len(keys) |->
        [speaker_label |-> keys[k],
         mapped_name |-> MappingEntry(sp[last(keys[k])], cands).name]]

\* handleDownload and api.confirmMapping: the mappings of the export request
\* body, built from the rendered speakers (a later record of a tag
\* overwrites an earlier one)
ExportMappings(sp, cands) ==
  LET keys == MappingKeys(sp)
      last(t) == CHOOSE i \in 1..Len(sp) :
                   sp[i].tag_id = t /\ \A j \in (i + 1)..Len(sp) : sp[j].tag_id /= t
  IN [k \in 1..Len(keys) |->
        [speaker_label |-> keys[k],
         mapped_name |-> MappingEntry(sp[last(keys[k])], cands).name,
         abbreviation |-> MappingEntry(sp[last(keys[k])], cands).abbreviation]]

\* setSegments(prev => prev.map(...)) of handleEditSegment (index from 1)
EditSegmentResult(prev, index, newText) ==
  [i \in 1..Len(prev) |-> IF i = index THEN [prev[i] EXCEPT !.text = newText] ELSE prev[i]]

\* The objects of data.detected_speakers after the state array sp was
\* updated in place: an object still shared with the state shows the update.
Aliased(sp, sh, data) ==
  [i \in 1..Len(data) |-> IF i \in sh THEN sp[i] ELSE data[i]]

PresentTags == { speakers[i].tag_id : i \in 1..Len(speakers) }
AbsentTag == Tag(Len(speakers) + 1)
TagInputs == PresentTags \cup {AbsentTag}
Values == { <<>>, <<"X">> }
SegTimecodes == <<"00:00:00:00", "00:00:01:01", "00:00:02:00", "00:00:03:12">>

NoOp == [op |-> "none", a |-> Null, b |-> Null, threw |-> "none", rep |-> FALSE]

\* no export request has been sent
NoExport == [mappings |-> <<>>, filename |-> Null]

InitDash ==
  \E n \in 0..NumTags :
    \E dict \in [1..n -> BackendSpeakers] :
      \E texts \in [1..(IF n = 0 THEN 0 ELSE NumSegs) -> Texts] :
        LET segs == [i \in DOMAIN texts |->
                       [timecode |-> SegTimecodes[i],
                        speaker |-> Tag(((i - 1) % n) + 1),
                        text |-> texts[i]]]
            detected == DetectedSpeakers(dict)
        IN /\ candidates = CandidatesOf(detected)
           /\ dataSpeakers = detected
           /\ dataSegments = PreviewTranscript(segs)
           /\ speakers = detected
           /\ shared = 1..n
           /\ segments = PreviewTranscript(segs)
           /\ lastOp = NoOp
           /\ opCount = 0
           /\ exportRequest = NoExport

HandleSwap(tagId1, tagId2) ==
  /\ opCount < MaxOps
  /\ speakers' = SwapOutcome(speakers, tagId1, tagId2).speakers
  /\ dataSpeakers' = Aliased(speakers', shared, dataSpeakers)
  /\ lastOp' = [op |-> "swap", a |-> tagId1, b |-> tagId2,
                threw |-> SwapOutcome(speakers, tagId1, tagId2).threw,
                rep |-> (lastOp.op = "swap" /\ lastOp.a = tagId1 /\ lastOp.b = tagId2)]
  /\ opCount' = opCount + 1
  /\ UNCHANGED <<candidates, dataSegments, shared, segments, exportRequest>>

HandleUpdateSpeaker(tagId, field, value) ==
  /\ opCount < MaxOps
  /\ speakers' = UpdateSpeakerResult(speakers, tagId, field, value)
  /\ shared' = { i \in shared : speakers[i].tag_id /= tagId }
  /\ lastOp' = [NoOp EXCEPT !.op = "update"]
  /\ opCount' = opCount + 1
  /\ UNCHANGED <<candidates, dataSpeakers, dataSegments, segments, exportRequest>>

HandleCandidateSelect(tagId, candidateId) ==
  /\ opCount < MaxOps
  /\ speakers' = CandidateSelectResult(speakers, candidates, tagId, candidateId)
  /\ shared' = { i \in shared : speakers[i].tag_id /= tagId }
  /\ lastOp' = [NoOp EXCEPT !.op = "select"]
  /\ opCount' = opCount + 1
  /\ UNCHANGED <<candidates, dataSpeakers, dataSegments, segments, exportRequest>>

\* handleEditSegment writing the text into the segment object it was given
HandleEditSegmentInPlace(index, newText) ==
  /\ opCount < MaxOps
  /\ segments' = EditSegmentResult(segments, index, newText)
  /\ dataSegments' = [i \in 1..Len(dataSegments) |->
                        IF segments[i] = dataSegments[i] THEN segments'[i]
                        ELSE dataSegments[i]]
  /\ lastOp' = [NoOp EXCEPT !.op = "edit"]
  /\ opCount' = opCount + 1
  /\ UNCHANGED <<candidates, dataSpeakers, speakers, shared, exportRequest>>

HandleEditSegment(index, newText) ==
  /\ opCount < MaxOps
  /\ segments' = EditSegmentResult(segments, index, newText)
  /\ lastOp' = [NoOp EXCEPT !.op = "edit"]
  /\ opCount' = opCount + 1
  /\ UNCHANGED <<candidates, dataSpeakers, dataSegments, speakers, shared,
                 exportRequest>>

\* handleDownload: the mapping of the rendered speakers goes out with
\* api.confirmMapping; the request succeeds (download, onFinish) or fails
\* (onError)
HandleDownload(ok) ==
  /\ opCount < MaxOps
  /\ exportRequest' = [mappings |-> ExportMappings(speakers, candidates),
                       filename |-> "transcript.docx"]
  /\ lastOp' = [NoOp EXCEPT !.op = "download",
                            !.threw = IF ok THEN "none" ELSE "ExportFailed"]
  /\ opCount' = opCount + 1
  /\ UNCHANGED <<candidates, dataSpeakers, dataSegments, speakers, shared, segments>>

\* onFinish has run: App has left the verification screen
Exported == lastOp.op = "download" /\ lastOp.threw = "none"

DoSwap == \E a \in TagInputs, b \in TagInputs : HandleSwap(a, b)
DoUpdateSpeaker ==
  \E t \in PresentTags, f \in {"name", "abbr"}, v \in Values : HandleUpdateSpeaker(t, f, v)
DoCandidateSelect ==
  \E t \in PresentTags :
    \E c \in { candidates[i].id : i \in 1..Len(candidates) } \cup {CustomChoice} :
      HandleCandidateSelect(t, c)
DoEditSegment ==
  \E i \in 1..Len(segments), x \in Texts : HandleEditSegment(i, x)

----------------------------------------------------------------------------
\* BatchProgress: phase 1, uploading the files with bounded concurrency

CONCURRENT_UPLOADS == 3

Min(a, b) == IF a < b THEN a ELSE b

ProjectId(i) == <<"p">> \o Tag(i)
JobOf(id) == CHOOSE i \in 1..nFiles : ProjectId(i) = id
UploadErrorMessage == <<"e", "r", "r">>
EmptyTracker == [projectId |-> Undefined, uploadError |-> Undefined]

\* for (i = 0; ...; i += CONCURRENT_UPLOADS): first index (from 1) of the
\* batch that file j belongs to
BatchStart(j) == ((j - 1) \div CONCURRENT_UPLOADS) * CONCURRENT_UPLOADS + 1

\* the inner loop with j <= i + CONCURRENT_UPLOADS: one call too many
BatchIndexesWide(from) == from..Min(from + CONCURRENT_UPLOADS, nFiles)

\* the indexes uploadOne is called with in the loop iteration starting at from
BatchIndexes(from) == from..Min(from + CONCURRENT_UPLOADS - 1, nFiles)

\* Promise.race in place of Promise.all: the loop goes on at the first
\* uploadOne that settles
BatchSettledAny(j, st) == TRUE

\* await Promise.all(batch): with the uploadOne positions st, every call of
\* the batch of file j has settled
BatchSettled(j, st) ==
  ~ \E k \in BatchIndexes(BatchStart(j)) : st[k] = "inflight"

\* trackers.filter(t => t.projectId).map(t => t.projectId)
RECURSIVE IdsOf(_)
IdsOf(trs) ==
  IF trs = <<>> THEN <<>>
  ELSE (IF Truthy(Head(trs).projectId) THEN <<Head(trs).projectId>> ELSE <<>>)
         \o IdsOf(Tail(trs))

\* The polling effect, run when state has become 'processing' with the
\* trackers trs: no id -> 'done'; otherwise the first poll() and setInterval.
EnterProcessing(trs) ==
  LET ids == IdsOf(trs)
  IN IF Len(ids) = 0
     THEN /\ bState' = "done"
          /\ doneBy' = "noIds"
          /\ UNCHANGED <<projectIds, pollActive, pollsIssued, requests>>
     ELSE /\ bState' = "processing"
          /\ projectIds' = ids
          /\ pollActive' = TRUE
          /\ pollsIssued' = pollsIssued + 1
          /\ requests' = requests \cup {pollsIssued + 1}
          /\ UNCHANGED doneBy

\* The for loop of uploadAll resumed at index from (from 1), the uploadOne
\* positions being st and the local trackers upd: it starts the next batch,
\* or leaves the loop, publishes the trackers and moves on to 'processing'.
RunLoop(from, st, upd) ==
  IF from <= nFiles /\ ~cancelled
  THEN /\ upSt' = [j \in 1..nFiles |-> IF j \in BatchIndexes(from) THEN "inflight" ELSE st[j]]
       /\ upc' = "uploading"
       /\ UNCHANGED <<bState, projectIds, pollActive, pollsIssued, requests, doneBy>>
  ELSE /\ upSt' = st
       /\ upc' = "ended"
       /\ IF cancelled
          THEN UNCHANGED <<bState, projectIds, pollActive, pollsIssued, requests, doneBy>>
          ELSE EnterProcessing(upd)

\* api.preloadWhisperModel resolved
PreloadOk ==
  /\ upc = "preload"
  /\ IF cancelled
     THEN /\ upc' = "ended"
          /\ UNCHANGED <<upSt, bState, projectIds, pollActive, pollsIssued, requests, doneBy>>
     ELSE RunLoop(1, upSt, updated)
  /\ UNCHANGED <<nFiles, cancelled, updated, trackers, doneCount, uploadedCount,
                 responses, batchFiles, completedCount, errorCount, jobStatus>>

\* api.preloadWhisperModel rejected: onError, setState('done'), return
PreloadFails ==
  /\ upc = "preload"
  /\ upc' = "ended"
  /\ bState' = IF cancelled THEN bState ELSE "done"
  /\ doneBy' = IF cancelled THEN doneBy ELSE "preload"
  /\ UNCHANGED <<nFiles, cancelled, upSt, updated, trackers, doneCount,
                 uploadedCount, projectIds, pollActive, pollsIssued, requests,
                 responses, batchFiles, completedCount, errorCount, jobStatus>>

\* uploadOne without its try/catch: a rejected upload rejects Promise.all
\* and with it uploadAll, which never resumes
UploadSettlesNoCatch(j, ok) ==
  /\ upc = "uploading"
  /\ upSt[j] = "inflight"
  /\ LET upd == [updated EXCEPT ![j] =
                   IF ok THEN [@ EXCEPT !.projectId = ProjectId(j)] ELSE @]
         st == [upSt EXCEPT ![j] = "finished"]
     IN /\ updated' = upd
        /\ doneCount' = IF ok THEN doneCount + 1 ELSE doneCount
        /\ trackers' = IF cancelled \/ ~ok THEN trackers ELSE upd
        /\ uploadedCount' = IF cancelled \/ ~ok THEN uploadedCount ELSE doneCount + 1
        /\ jobStatus' = IF ok THEN [jobStatus EXCEPT ![j] = "queued"] ELSE jobStatus
        /\ IF ~ok
           THEN /\ upSt' = st
                /\ upc' = "ended"
                /\ UNCHANGED <<bState, projectIds, pollActive, pollsIssued, requests, doneBy>>
           ELSE IF BatchSettled(j, st)
           THEN RunLoop(BatchStart(j) + CONCURRENT_UPLOADS, st, upd)
           ELSE /\ upSt' = st
                /\ UNCHANGED <<upc, bState, projectIds, pollActive, pollsIssued,
                               requests, doneBy>>
  /\ UNCHANGED <<nFiles, cancelled, responses, batchFiles, completedCount, errorCount>>

\* uploadOne(j) after its await: api.batchUploadFile resolved with a project
\* id (ok) or rejected; then, when the whole batch has settled, Promise.all
\* resolves and the loop of uploadAll goes on.
UploadSettles(j, ok) ==
  /\ upc = "uploading"
  /\ upSt[j] = "inflight"
  /\ LET upd == [updated EXCEPT ![j] =
                   IF ok THEN [@ EXCEPT !.projectId = ProjectId(j)]
                         ELSE [@ EXCEPT !.uploadError = UploadErrorMessage]]
         st == [upSt EXCEPT ![j] = "finished"]
     IN /\ updated' = upd
        /\ doneCount' = doneCount + 1
        /\ trackers' = IF cancelled THEN trackers ELSE upd
        /\ uploadedCount' = IF cancelled THEN uploadedCount ELSE doneCount + 1
        /\ jobStatus' = IF ok THEN [jobStatus EXCEPT ![j] = "queued"] ELSE jobStatus
        /\ IF BatchSettled(j, st)
           THEN RunLoop(BatchStart(j) + CONCURRENT_UPLOADS, st, upd)
           ELSE /\ upSt' = st
                /\ UNCHANGED <<upc, bState, projectIds, pollActive, pollsIssued,
                               requests, doneBy>>
  /\ UNCHANGED <<nFiles, cancelled, responses, batchFiles, completedCount, errorCount>>

\* the component unmounts: both effect cleanups run
Unmount ==
  /\ upc /= "off"
  /\ ~cancelled
  /\ cancelled' = TRUE
  /\ pollActive' = FALSE
  /\ UNCHANGED <<nFiles, upc, upSt, updated, trackers, doneCount, uploadedCount,
                 bState, projectIds, pollsIssued, requests, responses, batchFiles,
                 completedCount, errorCount, doneBy, jobStatus>>

----------------------------------------------------------------------------
\* The server's side of a batch: job pipeline and batch_status

StatusVocabulary ==
  {"queued", "downloading", "converting", "transcribing", "completed", "error"}

\* pipeline of an uploaded file: convert -> transcribe -> done
NextStage(st) ==
  CASE st = "queued" -> "converting"
    [] st = "converting" -> "transcribing"
    [] st = "transcribing" -> "completed"

Terminal(st) == st \in {"completed", "error"}

RECURSIVE CountIn(_, _)
CountIn(fs, sts) ==
  IF fs = <<>> THEN 0
  ELSE (IF Head(fs).status \in sts THEN 1 ELSE 0) + CountIn(Tail(fs), sts)

\* batch_status(jobIds[]) -> {total, completed, errors, in_progress, files[]}
BatchStatusResponse(q, ids, js) ==
  LET fs == [k \in 1..Len(ids) |-> [id |-> ids[k], status |-> js[JobOf(ids[k])]]]
  IN [req |-> q,
      total |-> Len(ids),
      completed |-> CountIn(fs, {"completed"}),
      errors |-> CountIn(fs, {"error"}),
      in_progress |-> CountIn(fs, StatusVocabulary \ {"completed", "error"}),
      files |-> fs]

ServerAdvances(j) ==
  /\ jobStatus[j] \in {"queued", "converting", "transcribing"}
  /\ jobStatus' = [jobStatus EXCEPT ![j] = NextStage(@)]
  /\ UNCHANGED <<nFiles, upc, cancelled, upSt, updated, trackers, doneCount,
                 uploadedCount, bState, projectIds, pollActive, pollsIssued, requests,
                 responses, batchFiles, completedCount, errorCount, doneBy>>

ServerJobFails(j) ==
  /\ jobStatus[j] \in {"queued", "converting", "transcribing"}
  /\ jobStatus' = [jobStatus EXCEPT ![j] = "error"]
  /\ UNCHANGED <<nFiles, upc, cancelled, upSt, updated, trackers, doneCount,
                 uploadedCount, bState, projectIds, pollActive, pollsIssued, requests,
                 responses, batchFiles, completedCount, errorCount, doneBy>>

ServerAnswers(q) ==
  /\ q \in requests
  /\ requests' = requests \ {q}
  /\ responses' = responses \cup {BatchStatusResponse(q, projectIds, jobStatus)}
  /\ UNCHANGED <<nFiles, upc, cancelled, upSt, updated, trackers, doneCount,
                 uploadedCount, bState, projectIds, pollActive, pollsIssued,
                 batchFiles, completedCount, errorCount, doneBy, jobStatus>>

----------------------------------------------------------------------------
\* BatchProgress: phase 2, polling the batch status

\* setInterval(poll, 2000) fires: poll() sends a request
PollTick ==
  /\ pollActive
  /\ pollsIssued < MaxPolls
  /\ pollsIssued' = pollsIssued + 1
  /\ requests' = requests \cup {pollsIssued + 1}
  /\ UNCHANGED <<nFiles, upc, cancelled, upSt, updated, trackers, doneCount,
                 uploadedCount, bState, projectIds, pollActive, responses, batchFiles,
                 completedCount, errorCount, doneBy, jobStatus>>

\* api.batchStatus rejected: poll() ignores the error
PollFails(q) ==
  /\ q \in requests
  /\ requests' = requests \ {q}
  /\ UNCHANGED <<nFiles, upc, cancelled, upSt, updated, trackers, doneCount,
                 uploadedCount, bState, projectIds, pollActive, pollsIssued, responses,
                 batchFiles, completedCount, errorCount, doneBy, jobStatus>>

\* stopping as soon as some job has completed
PollStopsEarly(response) == response.completed > 0

\* stopping at the first response, whatever it reports
PollStopsAlways(response) == response.in_progress >= 0

\* the client's decision to stop polling
PollStops(response) == response.in_progress = 0

\* poll() after its await: the response has arrived
PollResponse(r) ==
  /\ r \in responses
  /\ responses' = responses \ {r}
  /\ IF cancelled
     THEN UNCHANGED <<batchFiles, completedCount, errorCount, bState, doneBy, pollActive>>
     ELSE /\ batchFiles' = r.files
          /\ completedCount' = r.completed
          /\ errorCount' = r.errors
          /\ IF PollStops(r)
             THEN /\ bState' = "done"
                  /\ doneBy' = IF bState = "done" THEN doneBy ELSE "poll"
                  /\ pollActive' = FALSE
             ELSE UNCHANGED <<bState, doneBy, pollActive>>
  /\ UNCHANGED <<nFiles, upc, cancelled, upSt, updated, trackers, doneCount,
                 uploadedCount, projectIds, pollsIssued, requests, jobStatus>>

\* fileStatuses: the status shown for file i
FileStatus(i) ==
  LET t == trackers[i]
  IN IF Truthy(t.uploadError) THEN [status |-> "error", label |-> "Oshibka zagruzki"]
     ELSE IF ~Truthy(t.projectId)
          THEN IF bState = "uploading"
               THEN [status |-> "waiting", label |-> "Ozhidanie..."]
               ELSE [status |-> "error", label |-> "Ne zagruzhen"]
     ELSE IF \E k \in 1..Len(batchFiles) : batchFiles[k].id = t.projectId
          THEN LET bf == batchFiles[CHOOSE k \in 1..Len(batchFiles) :
                                       batchFiles[k].id = t.projectId]
               IN [status |-> bf.status, label |-> bf.status]
     ELSE IF bState = "uploading"
          THEN [status |-> "uploaded", label |-> "Zagruzhen na server"]
          ELSE [status |-> "queued", label |-> "V ocheredi"]

----------------------------------------------------------------------------
\* App.handleUpload with api.uploadFile, api.pollStatus, api.getVerificationData

\* texts of the source, transliterated
CancelledText ==
  <<"O", "b", "r", "a", "b", "o", "t", "k", "a", " ", "o", "t", "m", "e",
    "n", "e", "n", "a">>
GenericProcessingError ==
  <<"P", "r", "o", "i", "z", "o", "s", "h", "l", "a", " ", "o", "s", "h",
    "i", "b", "k", "a", " ", "p", "r", "i", " ", "o", "b", "r", "a", "b",
    "o", "t", "k", "e", " ", "f", "a", "j", "l", "a">>
GenericServerError ==
  <<"O", "s", "h", "i", "b", "k", "a", " ", "o", "b", "r", "a", "b", "o",
    "t", "k", "i", " ", "n", "a", " ", "s", "e", "r", "v", "e", "r", "e">>
CreateFailedText ==
  <<"O", "s", "h", "i", "b", "k", "a", " ", "p", "r", "i", " ", "s", "o",
    "z", "d", "a", "n", "i", "i", " ", "p", "r", "o", "e", "k", "t", "a">>
StatusFailedText ==
  <<"O", "s", "h", "i", "b", "k", "a", " ", "p", "r", "o", "v", "e", "r",
    "k", "i", " ", "s", "t", "a", "t", "u", "s", "a">>
ResultFailedText ==
  <<"N", "e", " ", "u", "d", "a", "l", "o", "s", " ", "p", "o", "l", "u",
    "c", "h", "i", "t", " ", "d", "a", "n", "n", "y", "e", " ", "p", "r",
    "o", "e", "k", "t", "a">>
ExportDoneText ==
  <<"M", "o", "n", "t", "a", "z", "h", "n", "y", "j", " ", "l", "i", "s",
    "t", " ", "u", "s", "p", "e", "s", "h", "n", "o", " ", "s", "f", "o",
    "r", "m", "i", "r", "o", "v", "a", "n">>
ExportFailedText ==
  <<"O", "s", "h", "i", "b", "k", "a", " ", "g", "e", "n", "e", "r", "a",
    "c", "i", "i", " ", "d", "o", "k", "u", "m", "e", "n", "t", "a">>

\* data.error of a status response: absent, empty, or a recorded message
ErrorTexts == { Undefined, <<>>, <<"N", "o", "t", "F", "o", "u", "n", "d">> }

NoStatus == [status |-> "none", error |-> Undefined]

\* the catch block of handleUpload showing one fixed text for every error
CatchErrorGeneric(name, message) ==
  /\ lastToast' = IF name = "AbortError" THEN "cancelled" ELSE "error"
  /\ toastText' = IF name = "AbortError" THEN CancelledText ELSE GenericProcessingError
  /\ status' = "IDLE"
  /\ abortRef' = FALSE
  /\ apc' = "idle"

\* the catch and finally blocks of handleUpload; name is error.name and
\* message is error.message
CatchError(name, message) ==
  /\ lastToast' = IF name = "AbortError" THEN "cancelled" ELSE "error"
  /\ toastText' = IF name = "AbortError" THEN CancelledText
                                         ELSE Or(message, GenericProcessingError)
  /\ status' = "IDLE"
  /\ abortRef' = FALSE
  /\ apc' = "idle"

\* UploadForm calls onUpload(link): handleUpload up to its first await
HandleUpload ==
  /\ status = "IDLE"
  /\ apc = "idle"
  /\ submissions < MaxSubmissions
  /\ submissions' = submissions + 1
  /\ status' = "PROCESSING"
  /\ progressStep' = ""
  /\ aborted' = FALSE
  /\ listeners' = {}
  /\ abortRef' = TRUE
  /\ apc' = "uploadFile"
  /\ pollIter' = 0
  /\ observed' = NoStatus
  /\ UNCHANGED <<timers, projectData, lastToast, toastText>>

\* api.uploadFile settled; on success pollStatus starts: it checks the
\* signal and sends the first status request
UploadFileSettles(ok) ==
  /\ apc = "uploadFile"
  /\ IF ~ok THEN /\ CatchError("Error", CreateFailedText)
                 /\ UNCHANGED pollIter
     ELSE IF aborted THEN /\ CatchError("AbortError", CancelledText)
                          /\ UNCHANGED pollIter
     ELSE /\ apc' = "statusFetch"
          /\ pollIter' = 1
          /\ UNCHANGED <<status, abortRef, lastToast, toastText>>
  /\ UNCHANGED <<aborted, timers, listeners, progressStep, projectData, observed,
                 submissions>>

\* pollStatus testing data.status against the display labels ('Gotovo',
\* 'Oshibka') instead of the status vocabulary: 'completed' and 'error' are
\* reported as progress and polled again
StatusResponseLabels(resp, err) ==
  /\ apc = "statusFetch"
  /\ IF resp = "notok"
     THEN /\ CatchError("Error", StatusFailedText)
          /\ UNCHANGED <<timers, listeners, progressStep, observed>>
     ELSE /\ observed' = [status |-> resp, error |-> err]
          /\ progressStep' = resp
          /\ timers' = timers \cup {pollIter}
          /\ listeners' = listeners \cup {pollIter}
          /\ apc' = "waiting"
          /\ UNCHANGED <<status, abortRef, lastToast, toastText>>
  /\ UNCHANGED <<aborted, pollIter, projectData, submissions>>

\* the status request of pollStatus settled: resp is "notok" (!response.ok)
\* or data.status, err is data.error
StatusResponse(resp, err) ==
  /\ apc = "statusFetch"
  /\ IF resp = "notok"
     THEN /\ CatchError("Error", StatusFailedText)
          /\ UNCHANGED <<timers, listeners, progressStep, observed>>
     ELSE IF resp = "error"
     THEN /\ observed' = [status |-> resp, error |-> err]
          /\ CatchError("Error", Or(err, GenericServerError))
          /\ UNCHANGED <<timers, listeners, progressStep>>
     ELSE IF resp = "completed"
     THEN /\ observed' = [status |-> resp, error |-> err]
          /\ apc' = "resultFetch"
          /\ UNCHANGED <<status, abortRef, lastToast, toastText, timers, listeners,
                         progressStep>>
     ELSE /\ observed' = [status |-> resp, error |-> err]
          /\ progressStep' = resp
          /\ timers' = timers \cup {pollIter}
          /\ listeners' = listeners \cup {pollIter}
          /\ apc' = "waiting"
          /\ UNCHANGED <<status, abortRef, lastToast, toastText>>
  /\ UNCHANGED <<aborted, pollIter, projectData, submissions>>

\* the setTimeout of the wait fires: resolve, then the next loop iteration
\* checks the signal and sends the next status request
TimerFires ==
  /\ apc = "waiting"
  /\ pollIter \in timers
  /\ pollIter < MaxStatusPolls
  /\ timers' = timers \ {pollIter}
  /\ pollIter' = pollIter + 1
  /\ apc' = "statusFetch"
  /\ UNCHANGED <<status, abortRef, aborted, listeners, progressStep, projectData,
                 lastToast, toastText, observed, submissions>>

\* ProcessingStatus calls onCancel: abortRef.current?.abort(). Every
\* registered listener runs (clearTimeout, reject) and is removed; a pending
\* status request or wait rejects with AbortError.
HandleCancel ==
  /\ status = "PROCESSING"
  /\ abortRef
  /\ ~aborted
  /\ aborted' = TRUE
  /\ timers' = timers \ listeners
  /\ listeners' = {}
  /\ IF apc \in {"statusFetch", "waiting"}
     THEN CatchError("AbortError", CancelledText)
     ELSE UNCHANGED <<status, abortRef, apc, lastToast, toastText>>
  /\ UNCHANGED <<pollIter, progressStep, projectData, observed, submissions>>

\* api.getVerificationData settled
ResultSettles(ok) ==
  /\ apc = "resultFetch"
  /\ IF ok
     THEN /\ projectData' = TRUE
          /\ status' = "VERIFICATION"
          /\ abortRef' = FALSE
          /\ apc' = "idle"
          /\ UNCHANGED <<lastToast, toastText>>
     ELSE /\ CatchError("Error", ResultFailedText)
          /\ UNCHANGED projectData
  /\ UNCHANGED <<aborted, pollIter, timers, listeners, progressStep, observed,
                 submissions>>

\* handleDownload calling onFinish whether or not the export succeeded
ExportSettlesAlways(ok) ==
  /\ status = "VERIFICATION"
  /\ status' = "COMPLETED"
  /\ lastToast' = IF ok THEN "success" ELSE "error"
  /\ toastText' = IF ok THEN ExportDoneText ELSE ExportFailedText
  /\ UNCHANGED <<apc, abortRef, aborted, pollIter, timers, listeners, progressStep,
                 projectData, observed, submissions>>

\* VerificationDashboard.handleDownload settled: onFinish or onError
ExportSettles(ok) ==
  /\ status = "VERIFICATION"
  /\ status' = IF ok THEN "COMPLETED" ELSE status
  /\ lastToast' = IF ok THEN "success" ELSE "error"
  /\ toastText' = IF ok THEN ExportDoneText ELSE ExportFailedText
  /\ UNCHANGED <<apc, abortRef, aborted, pollIter, timers, listeners, progressStep,
                 projectData, observed, submissions>>

\* the button of the COMPLETED screen
NextFile ==
  /\ status = "COMPLETED"
  /\ status' = "IDLE"
  /\ projectData' = FALSE
  /\ UNCHANGED <<apc, abortRef, aborted, pollIter, timers, listeners, progressStep,
                 lastToast, toastText, observed, submissions>>

StatusAnswers ==
  {"notok", "queued", "downloading", "converting", "transcribing", "completed", "error"}

\* the error field that comes with a status: only a failed job carries one
ErrorsWith(resp) == IF resp = "error" THEN ErrorTexts ELSE {Undefined}

----------------------------------------------------------------------------
\* The server's side of the single job: create_job, the job pipeline and
\* get_job_status

\* pipeline of a link job, in the words of the status vocabulary
LinkNextStage(st) ==
  CASE st = "queued" -> "downloading"
    [] st = "downloading" -> "converting"
    [] st = "converting" -> "transcribing"
    [] st = "transcribing" -> "completed"

\* api.uploadFile settled; when it resolved, the server has created the job
JobCreated(ok) ==
  /\ UploadFileSettles(ok)
  /\ job' = IF ok THEN "queued" ELSE job
  /\ UNCHANGED <<speakersDict, offsets>>

JobAdvances ==
  /\ job \in {"queued", "downloading", "converting", "transcribing"}
  /\ job' = LinkNextStage(job)
  /\ UNCHANGED <<appVars, speakersDict, offsets>>

JobFails ==
  /\ job \in {"queued", "downloading", "converting", "transcribing"}
  /\ job' = "error"
  /\ UNCHANGED <<appVars, speakersDict, offsets>>

\* the status request succeeds and reports the job's current status
StatusReported ==
  /\ job /= "none"
  /\ \E err \in ErrorsWith(job) : StatusResponse(job, err)
  /\ UNCHANGED <<job, speakersDict, offsets>>

\* the timer of a wait beyond the MaxStatusPolls-th iteration fires; these
\* iterations are not told apart
TimerFiresLate ==
  /\ apc = "waiting"
  /\ pollIter \in timers
  /\ pollIter = MaxStatusPolls
  /\ timers' = timers \ {pollIter}
  /\ apc' = "statusFetch"
  /\ UNCHANGED <<status, abortRef, aborted, pollIter, listeners, progressStep,
                 projectData, lastToast, toastText, observed, submissions>>

----------------------------------------------------------------------------
\* UploadForm and BatchUploadForm: client validation

Whitespace == {" ", "\t", "\n"}

\* String.prototype.trim
RECURSIVE TrimStart(_)
TrimStart(str) ==
  IF str /= <<>> /\ Head(str) \in Whitespace THEN TrimStart(Tail(str)) ELSE str

RECURSIVE TrimEnd(_)
TrimEnd(str) ==
  IF str /= <<>> /\ str[Len(str)] \in Whitespace
  THEN TrimEnd(SubSeq(str, 1, Len(str) - 1)) ELSE str

Trim(str) == TrimEnd(TrimStart(str))

\* String.prototype.includes
Includes(str, sub) ==
  \E i \in 1..(Len(str) - Len(sub) + 1) : SubSeq(str, i, i + Len(sub) - 1) = sub

YadiSk ==
  <<"y", "a", "d", "i", ".", "s", "k">>
DiskYandex ==
  <<"d", "i", "s", "k", ".", "y", "a", "n", "d", "e", "x">>
EmptyLinkText ==
  <<"V", "s", "t", "a", "v", "t", "e", " ", "s", "s", "y", "l", "k", "u">>
BadLinkText ==
  <<"V", "v", "e", "d", "i", "t", "e", " ", "k", "o", "r", "r", "e", "k", "t", "n", "u", "y", "u", " ", "s", "s", "y", "l", "k", "u">>
NoFilesFoundText ==
  <<"N", "e", " ", "n", "a", "j", "d", "e", "n", "o", " ", "m", "e", "d", "i", "a", "f", "a", "j", "l", "o", "v">>
NoFilesChosenText ==
  <<"V", "y", "b", "e", "r", "i", "t", "e", " ", "f", "a", "j", "l", "y">>

\* handleSubmit without the Yandex.Disk test and passing the link as typed
SubmitOutcomeUnchecked(typed) ==
  IF ~Truthy(Trim(typed))
  THEN [error |-> EmptyLinkText, upload |-> Undefined]
  ELSE [error |-> Undefined, upload |-> typed]

\* UploadForm.handleSubmit for the typed link: the error it sets, if any, and
\* the argument it calls onUpload with, if it does
SubmitOutcome(typed) ==
  LET trimmed == Trim(typed)
  IN IF ~Truthy(trimmed)
     THEN [error |-> EmptyLinkText, upload |-> Undefined]
     ELSE IF ~Includes(trimmed, YadiSk) /\ ~Includes(trimmed, DiskYandex)
     THEN [error |-> BadLinkText, upload |-> Undefined]
     ELSE [error |-> Undefined, upload |-> trimmed]

\* the onChange of the link input
ChangeLink(v) ==
  /\ status = "IDLE"
  /\ link' = v
  /\ linkError' = <<>>
  /\ UNCHANGED <<posted, files, filesError, startedBatch>>
  /\ UNCHANGED appVars

\* the form is submitted: UploadForm.handleSubmit and, through onUpload,
\* App.handleUpload up to the fetch of api.uploadFile
SubmitLink ==
  /\ status = "IDLE"
  /\ LET out == SubmitOutcome(link)
     IN IF out.upload = Undefined
        THEN /\ linkError' = out.error
             /\ UNCHANGED posted
             /\ UNCHANGED appVars
        ELSE /\ HandleUpload
             /\ posted' = <<out.upload>>
             /\ UNCHANGED linkError
  /\ UNCHANGED <<link, files, filesError, startedBatch>>

ALLOWED_EXTENSIONS ==
  {".mp3", ".wav", ".mov", ".mxf", ".mp4", ".wmv", ".avi", ".mkv", ".ogg", ".flac"}

\* filterValidFiles
RECURSIVE FilterValidFiles(_)
FilterValidFiles(fileList) ==
  IF fileList = <<>> THEN <<>>
  ELSE (IF Head(fileList) \in ALLOWED_EXTENSIONS THEN <<Head(fileList)>> ELSE <<>>)
         \o FilterValidFiles(Tail(fileList))

\* handleFileSelect
HandleFileSelect(fileList) ==
  /\ IF Len(fileList) = 0
     THEN UNCHANGED <<files, filesError>>
     ELSE IF Len(FilterValidFiles(fileList)) = 0
     THEN /\ filesError' = NoFilesFoundText
          /\ UNCHANGED files
     ELSE /\ files' = FilterValidFiles(fileList)
          /\ filesError' = <<>>
  /\ UNCHANGED <<link, linkError, posted, startedBatch>>

\* handleRemoveFile (index from 1)
HandleRemoveFile(index) ==
  /\ index \in 1..Len(files)
  /\ files' = [i \in 1..(Len(files) - 1) |-> IF i < index THEN files[i] ELSE files[i + 1]]
  /\ UNCHANGED <<link, linkError, posted, filesError, startedBatch>>

\* BatchUploadForm.handleSubmit for the selection: the error it sets, if any,
\* and whether it calls onStartBatch
BatchSubmitOutcome(selection) ==
  IF Len(selection) = 0
  THEN [error |-> NoFilesChosenText, start |-> FALSE]
  ELSE [error |-> Undefined, start |-> TRUE]

SubmitBatch ==
  /\ LET out == BatchSubmitOutcome(files)
     IN IF out.start
        THEN /\ startedBatch' = <<files>>
             /\ UNCHANGED filesError
        ELSE /\ filesError' = out.error
             /\ UNCHANGED startedBatch
  /\ UNCHANGED <<link, linkError, posted, files>>

\* what the user may type
LinkPrefixes == { <<>>, <<" ">> }
LinkCores == { <<>>, YadiSk, <<"h", "/">> \o DiskYandex \o <<"/", "d">>,
               <<"y", "a", "d", "i", ".", "s">>, <<"Y", "A", "D", "I", ".", "S", "K">> }
Links == { p \o c : p \in LinkPrefixes, c \in LinkCores }
           \cup { YadiSk \o <<"\t">>, <<"y", "a", " ", "d", "i", ".", "s", "k">> }

\* what the user may pick
FileLists ==
  UNION { [1..n -> {".mp3", ".txt"}] : n \in 0..MaxPick }

InitForms ==
  /\ link = <<>>
  /\ linkError = <<>>
  /\ posted = <<>>
  /\ files = <<>>
  /\ filesError = <<>>
  /\ startedBatch = <<>>

----------------------------------------------------------------------------
\* Initial states and specifications

\* App as first rendered
InitApp ==
  /\ status = "IDLE"
  /\ apc = "idle"
  /\ abortRef = FALSE
  /\ aborted = FALSE
  /\ pollIter = 0
  /\ timers = {}
  /\ listeners = {}
  /\ progressStep = ""
  /\ projectData = FALSE
  /\ lastToast = "none"
  /\ toastText = <<>>
  /\ observed = NoStatus
  /\ submissions = 0

\* no job has been created
JobOff == job = "none" /\ speakersDict = <<>> /\ offsets = <<>>

\* the dashboard is not mounted
DashOff ==
  /\ candidates = <<>>
  /\ dataSpeakers = <<>>
  /\ dataSegments = <<>>
  /\ speakers = <<>>
  /\ shared = {}
  /\ segments = <<>>
  /\ lastOp = NoOp
  /\ opCount = 0
  /\ exportRequest = NoExport

\* the batch view is not mounted
BatchOff ==
  /\ nFiles = 0
  /\ upc = "off"
  /\ cancelled = FALSE
  /\ upSt = <<>>
  /\ updated = <<>>
  /\ trackers = <<>>
  /\ doneCount = 0
  /\ uploadedCount = 0
  /\ bState = "uploading"
  /\ projectIds = <<>>
  /\ pollActive = FALSE
  /\ pollsIssued = 0
  /\ requests = {}
  /\ responses = {}
  /\ batchFiles = <<>>
  /\ completedCount = 0
  /\ errorCount = 0
  /\ doneBy = "none"
  /\ jobStatus = <<>>

\* BatchProgress mounted with n files: uploadAll has run up to its first await
InitBatch(maxFiles) ==
  \E n \in 1..maxFiles, eng \in {"whisper", "speechkit"} :
    /\ nFiles = n
    /\ upc = IF eng = "whisper" THEN "preload" ELSE "uploading"
    /\ cancelled = FALSE
    /\ upSt = [j \in 1..n |->
                 IF eng /= "whisper" /\ j <= CONCURRENT_UPLOADS THEN "inflight" ELSE "waiting"]
    /\ updated = [j \in 1..n |-> EmptyTracker]
    /\ trackers = [j \in 1..n |-> EmptyTracker]
    /\ doneCount = 0
    /\ uploadedCount = 0
    /\ bState = "uploading"
    /\ projectIds = <<>>
    /\ pollActive = FALSE
    /\ pollsIssued = 0
    /\ requests = {}
    /\ responses = {}
    /\ batchFiles = <<>>
    /\ completedCount = 0
    /\ errorCount = 0
    /\ doneBy = "none"
    /\ jobStatus = [j \in 1..n |-> "none"]

\* TranscriptPreview: editing and rendering the segments

\* Handlers dispatched in one render cycle: the updates they queue with
\* setSpeakers are processed together at the next render

\* the binding edits of the speaker matrix on tag t
BindingEdits(t) ==
  { [kind |-> "update", tag |-> t, field |-> f, value |-> v] :
      f \in {"name", "abbr"}, v \in Values }
    \cup { [kind |-> "select", tag |-> t, field |-> "none", value |-> c] :
             c \in { candidates[i].id : i \in 1..Len(candidates) } \cup {CustomChoice} }

\* the updater that handleUpdateSpeaker or handleCandidateSelect hands to
\* setSpeakers
ApplyEdit(prev, e) ==
  IF e.kind = "update" THEN UpdateSpeakerResult(prev, e.tag, e.field, e.value)
  ELSE CandidateSelectResult(prev, candidates, e.tag, e.value)

\* what handleSwap queues: nothing for an absent tag, otherwise the array it
\* has built from the rendered speakers
SwapUpdates(sp, tagId1, tagId2) ==
  IF FindIndex(sp, tagId1) = 0 \/ FindIndex(sp, tagId2) = 0 THEN <<>>
  ELSE <<[kind |-> "value", value |-> SwapResult(sp, tagId1, tagId2)]>>

\* useState processing its queue: a value replaces the state, an updater is
\* applied to the state reached so far
RECURSIVE ProcessQueue(_, _)
ProcessQueue(base, queue) ==
  IF queue = <<>> THEN base
  ELSE ProcessQueue(IF Head(queue).kind = "value" THEN Head(queue).value
                    ELSE ApplyEdit(base, Head(queue).edit),
                    Tail(queue))

\* handleSwap(a, b) and then a binding edit, before the next render
SwapThenEdit(a, b, e) ==
  /\ opCount < MaxCycles
  /\ speakers' = ProcessQueue(SwapResult(speakers, a, b),
                              SwapUpdates(speakers, a, b)
                                \o <<[kind |-> "updater", edit |-> e]>>)
  /\ dataSpeakers' = Aliased(SwapResult(speakers, a, b), shared, dataSpeakers)
  /\ shared' = { i \in shared : speakers[i].tag_id /= e.tag }
  /\ lastOp' = [op |-> "cycle", a |-> a, b |-> b, threw |-> "none", rep |-> FALSE,
                first |-> "swap", edit |-> e]
  /\ opCount' = opCount + 1
  /\ UNCHANGED <<candidates, dataSegments, segments, exportRequest>>

\* a binding edit and then handleSwap(a, b), before the next render; the
\* swap works on the speakers of the last render
EditThenSwap(a, b, e) ==
  /\ opCount < MaxCycles
  /\ speakers' = ProcessQueue(SwapResult(speakers, a, b),
                              <<[kind |-> "updater", edit |-> e]>>
                                \o SwapUpdates(speakers, a, b))
  /\ dataSpeakers' = Aliased(SwapResult(speakers, a, b), shared, dataSpeakers)
  /\ shared' = IF SwapUpdates(speakers, a, b) = <<>>
               THEN { i \in shared : speakers[i].tag_id /= e.tag }
               ELSE shared
  /\ lastOp' = [op |-> "cycle", a |-> a, b |-> b, threw |-> "none", rep |-> FALSE,
                first |-> "edit", edit |-> e]
  /\ opCount' = opCount + 1
  /\ UNCHANGED <<candidates, dataSegments, segments, exportRequest>>

InitPreview == editingIndex = 0 /\ editText = <<>>

\* seg.text.startsWith('(')
StartsWithParen(text) == Len(text) >= 1 /\ text[1] = "("

\* the pencil button of a rendered line
StartEdit(idx) ==
  /\ idx /= editingIndex
  /\ editingIndex' = idx
  /\ editText' = segments[idx].text
  /\ UNCHANGED dashVars

EditTexts == Texts \cup {<<>>, <<"(">>}

\* onChange of the textarea
ChangeEditText(v) ==
  /\ editingIndex /= 0
  /\ editText' = v
  /\ UNCHANGED <<dashVars, editingIndex>>

\* commitEdit: the button, or Enter in the textarea
CommitEdit ==
  /\ editingIndex /= 0
  /\ HandleEditSegment(editingIndex, editText)
  /\ editingIndex' = 0
  /\ UNCHANGED editText

\* cancelEdit: the button, or Escape in the textarea
CancelEdit ==
  /\ editingIndex /= 0
  /\ editingIndex' = 0
  /\ UNCHANGED <<dashVars, editText>>

\* the row of segment idx showing the text of data.preview_transcript
RenderSegmentOriginal(idx) ==
  LET seg == segments[idx]
      abbr == PreviewAbbr(speakers, candidates, seg.tag_id)
  IN IF editingIndex = idx
     THEN [kind |-> "editor", italic |-> FALSE,
           parts |-> <<seg.timecode, abbr \o <<":">>, editText>>]
     ELSE IF StartsWithParen(dataSegments[idx].text)
          THEN [kind |-> "text", italic |-> TRUE,
                parts |-> <<seg.timecode, dataSegments[idx].text>>]
          ELSE [kind |-> "text", italic |-> FALSE,
                parts |-> <<seg.timecode, abbr \o <<":">>, dataSegments[idx].text>>]

\* segments.map((seg, idx) => ...): the row rendered for segment idx
RenderSegment(idx) ==
  LET seg == segments[idx]
      abbr == PreviewAbbr(speakers, candidates, seg.tag_id)
  IN IF editingIndex = idx
     THEN [kind |-> "editor", italic |-> FALSE,
           parts |-> <<seg.timecode, abbr \o <<":">>, editText>>]
     ELSE IF StartsWithParen(seg.text)
          THEN [kind |-> "text", italic |-> TRUE, parts |-> <<seg.timecode, seg.text>>]
          ELSE [kind |-> "text", italic |-> FALSE,
                parts |-> <<seg.timecode, abbr \o <<":">>, seg.text>>]

Init == InitDash /\ BatchOff /\ InitApp /\ JobOff /\ InitForms /\ InitPreview
Next ==
  \/ ~Exported /\ DoSwap /\ UNCHANGED <<batchVars, appVars, srvVars, formVars, previewVars>>
  \/ ~Exported /\ DoUpdateSpeaker /\ UNCHANGED <<batchVars, appVars, srvVars, formVars, previewVars>>
  \/ ~Exported /\ DoCandidateSelect /\ UNCHANGED <<batchVars, appVars, srvVars, formVars, previewVars>>
  \/ ~Exported /\ DoEditSegment /\ UNCHANGED <<batchVars, appVars, srvVars, formVars, previewVars>>
  \/ ~Exported /\ (\E ok \in BOOLEAN : HandleDownload(ok))
       /\ UNCHANGED <<batchVars, appVars, srvVars, formVars, previewVars>>
Spec == Init /\ [][Next]_vars

\* The upload phase of a batch of up to MaxFiles files, up to the start of
\* the processing phase
UploadInit == DashOff /\ InitBatch(MaxFiles) /\ InitApp /\ JobOff /\ InitForms /\ InitPreview
UploadNext ==
  \/ PreloadOk /\ UNCHANGED <<dashVars, appVars, srvVars, formVars, previewVars>>
  \/ PreloadFails /\ UNCHANGED <<dashVars, appVars, srvVars, formVars, previewVars>>
  \/ (\E j \in 1..nFiles, ok \in BOOLEAN : UploadSettles(j, ok)) /\ UNCHANGED <<dashVars, appVars, srvVars, formVars, previewVars>>
  \/ Unmount /\ UNCHANGED <<dashVars, appVars, srvVars, formVars, previewVars>>
UploadSpec == UploadInit /\ [][UploadNext]_vars

\* A whole batch of up to MaxPollFiles files, with the server working on the
\* jobs and answering the status requests
BatchInit == DashOff /\ InitBatch(MaxPollFiles) /\ InitApp /\ JobOff /\ InitForms /\ InitPreview
BatchNext ==
  \/ PreloadOk /\ UNCHANGED <<dashVars, appVars, srvVars, formVars, previewVars>>
  \/ PreloadFails /\ UNCHANGED <<dashVars, appVars, srvVars, formVars, previewVars>>
  \/ (\E j \in 1..nFiles, ok \in BOOLEAN : UploadSettles(j, ok)) /\ UNCHANGED <<dashVars, appVars, srvVars, formVars, previewVars>>
  \/ Unmount /\ UNCHANGED <<dashVars, appVars, srvVars, formVars, previewVars>>
  \/ (\E j \in 1..nFiles : ServerAdvances(j)) /\ UNCHANGED <<dashVars, appVars, srvVars, formVars, previewVars>>
  \/ (\E j \in 1..nFiles : ServerJobFails(j)) /\ UNCHANGED <<dashVars, appVars, srvVars, formVars, previewVars>>
  \/ (\E q \in requests : ServerAnswers(q)) /\ UNCHANGED <<dashVars, appVars, srvVars, formVars, previewVars>>
  \/ PollTick /\ UNCHANGED <<dashVars, appVars, srvVars, formVars, previewVars>>
  \/ (\E q \in requests : PollFails(q)) /\ UNCHANGED <<dashVars, appVars, srvVars, formVars, previewVars>>
  \/ (\E r \in responses : PollResponse(r)) /\ UNCHANGED <<dashVars, appVars, srvVars, formVars, previewVars>>
BatchSpec == BatchInit /\ [][BatchNext]_vars

\* The single-job flow of App
AppInit == DashOff /\ BatchOff /\ InitApp /\ JobOff /\ InitForms /\ InitPreview
AppNext ==
  \/ HandleUpload /\ UNCHANGED <<dashVars, batchVars, srvVars, formVars, previewVars>>
  \/ (\E ok \in BOOLEAN : UploadFileSettles(ok)) /\ UNCHANGED <<dashVars, batchVars, srvVars, formVars, previewVars>>
  \/ (\E resp \in StatusAnswers : \E err \in ErrorsWith(resp) : StatusResponse(resp, err))
       /\ UNCHANGED <<dashVars, batchVars, srvVars, formVars, previewVars>>
  \/ TimerFires /\ UNCHANGED <<dashVars, batchVars, srvVars, formVars, previewVars>>
  \/ HandleCancel /\ UNCHANGED <<dashVars, batchVars, srvVars, formVars, previewVars>>
  \/ (\E ok \in BOOLEAN : ResultSettles(ok)) /\ UNCHANGED <<dashVars, batchVars, srvVars, formVars, previewVars>>
  \/ (\E ok \in BOOLEAN : ExportSettles(ok)) /\ UNCHANGED <<dashVars, batchVars, srvVars, formVars, previewVars>>
  \/ NextFile /\ UNCHANGED <<dashVars, batchVars, srvVars, formVars, previewVars>>
AppSpec == AppInit /\ [][AppNext]_vars

\* The single-job flow against a server whose status requests succeed and
\* whose job moves on; timers fire and responses arrive
PollInit == DashOff /\ BatchOff /\ InitApp /\ JobOff /\ InitForms /\ InitPreview
PollNext ==
  \/ HandleUpload /\ UNCHANGED <<dashVars, batchVars, srvVars, formVars, previewVars>>
  \/ (\E ok \in BOOLEAN : JobCreated(ok)) /\ UNCHANGED <<dashVars, batchVars, formVars, previewVars>>
  \/ JobAdvances /\ UNCHANGED <<dashVars, batchVars, formVars, previewVars>>
  \/ JobFails /\ UNCHANGED <<dashVars, batchVars, formVars, previewVars>>
  \/ StatusReported /\ UNCHANGED <<dashVars, batchVars, formVars, previewVars>>
  \/ TimerFires /\ UNCHANGED <<dashVars, batchVars, srvVars, formVars, previewVars>>
  \/ TimerFiresLate /\ UNCHANGED <<dashVars, batchVars, srvVars, formVars, previewVars>>
  \/ HandleCancel /\ UNCHANGED <<dashVars, batchVars, srvVars, formVars, previewVars>>
  \/ (\E ok \in BOOLEAN : ResultSettles(ok)) /\ UNCHANGED <<dashVars, batchVars, srvVars, formVars, previewVars>>
  \/ (\E ok \in BOOLEAN : ExportSettles(ok)) /\ UNCHANGED <<dashVars, batchVars, srvVars, formVars, previewVars>>
  \/ NextFile /\ UNCHANGED <<dashVars, batchVars, srvVars, formVars, previewVars>>
PollFairness ==
  /\ WF_vars(JobAdvances /\ UNCHANGED <<dashVars, batchVars, formVars, previewVars>>)
  /\ WF_vars(StatusReported /\ UNCHANGED <<dashVars, batchVars, formVars, previewVars>>)
  /\ WF_vars(TimerFires /\ UNCHANGED <<dashVars, batchVars, srvVars, formVars, previewVars>>)
  /\ WF_vars(TimerFiresLate /\ UNCHANGED <<dashVars, batchVars, srvVars, formVars, previewVars>>)
PollSpec == PollInit /\ [][PollNext]_vars /\ PollFairness

\* The preview of a mounted dashboard: edits of the segments, and selections
\* that change the abbreviations
PreviewInit == InitDash /\ BatchOff /\ InitApp /\ JobOff /\ InitForms /\ InitPreview
PreviewNext ==
  \/ (\E idx \in 1..Len(segments) : StartEdit(idx))
       /\ UNCHANGED <<batchVars, appVars, srvVars, formVars>>
  \/ (\E v \in EditTexts : ChangeEditText(v))
       /\ UNCHANGED <<batchVars, appVars, srvVars, formVars>>
  \/ CommitEdit /\ UNCHANGED <<batchVars, appVars, srvVars, formVars>>
  \/ CancelEdit /\ UNCHANGED <<batchVars, appVars, srvVars, formVars>>
  \/ DoCandidateSelect /\ UNCHANGED <<batchVars, appVars, srvVars, formVars, previewVars>>
PreviewSpec == PreviewInit /\ [][PreviewNext]_vars

----------------------------------------------------------------------------
\* Timecode Assembler of the backend: the timecode of a provider offset

FPS == 25

Digits == <<"0", "1", "2", "3", "4", "5", "6", "7", "8", "9">>

TwoDigits(n) == <<Digits[((n \div 10) % 10) + 1], Digits[(n % 10) + 1]>>

\* the frame count rounded to the nearest frame instead of truncated
TimecodeRounded(offsetMs) ==
  LET totalFrames == (offsetMs * FPS + 500) \div 1000
      totalSeconds == totalFrames \div FPS
  IN TwoDigits(totalSeconds \div 3600) \o <<":">>
       \o TwoDigits((totalSeconds \div 60) % 60) \o <<":">>
       \o TwoDigits(totalSeconds % 60) \o <<":">>
       \o TwoDigits(totalFrames % FPS)

\* Timecode(offsetMs): HH:MM:SS:FF at 25 fps, the frame count truncated
Timecode(offsetMs) ==
  LET totalFrames == (offsetMs * FPS) \div 1000
      totalSeconds == totalFrames \div FPS
  IN TwoDigits(totalSeconds \div 3600) \o <<":">>
       \o TwoDigits((totalSeconds \div 60) % 60) \o <<":">>
       \o TwoDigits(totalSeconds % 60) \o <<":">>
       \o TwoDigits(totalFrames % FPS)

\* result.segments of the GET /projects/{id} response for the given offsets
ResultSegments(offs) ==
  [i \in 1..Len(offs) |->
     [timecode |-> Timecode(offs[i]), speaker |-> Tag(1), text |-> <<"h", "i">>]]

\* offsets around the frame, second, minute and hour boundaries
Offsets == {0, 39, 40, 999, 1000, 1040, 59999, 60000, 3599960, 3599999, 3600000}

----------------------------------------------------------------------------
\* api.getVerificationData on the responses of a bounded backend

DictsOf(n) == [1..n -> [suggested_name : {Undefined}, duration_sec : 0..MaxDuration]]

\* api.getVerificationData resolves and the dashboard mounts on its result
GetVerificationData ==
  /\ speakersDict /= <<>>
  /\ dataSpeakers = <<>>
  /\ LET detected == DetectedSpeakers(speakersDict)
     IN /\ candidates' = CandidatesOf(detected)
        /\ dataSpeakers' = detected
        /\ speakers' = detected
        /\ shared' = 1..Len(detected)
  /\ dataSegments' = PreviewTranscript(ResultSegments(offsets))
  /\ segments' = PreviewTranscript(ResultSegments(offsets))
  /\ UNCHANGED <<lastOp, opCount, exportRequest>>

LoadInit ==
  /\ DashOff /\ BatchOff /\ InitApp /\ InitForms /\ InitPreview
  /\ job = "none"
  /\ offsets = <<>>
  /\ \E n \in 0..MaxDictTags : speakersDict \in DictsOf(n)
LoadNext ==
  \/ GetVerificationData /\ UNCHANGED <<batchVars, appVars, srvVars, formVars, previewVars>>
LoadSpec == LoadInit /\ [][LoadNext]_vars

----------------------------------------------------------------------------
\* The timecodes of a job on their way from the backend to the screen: the
\* project is loaded and the reviewer edits segment texts
TimecodeInit ==
  /\ DashOff /\ BatchOff /\ InitApp /\ InitForms /\ InitPreview
  /\ job = "none"
  /\ speakersDict = <<[suggested_name |-> Undefined, duration_sec |-> 1]>>
  /\ \E n \in 1..MaxOffsets : offsets \in [1..n -> Offsets]
TimecodeNext ==
  \/ GetVerificationData /\ UNCHANGED <<batchVars, appVars, srvVars, formVars, previewVars>>
  \/ DoEditSegment /\ UNCHANGED <<batchVars, appVars, srvVars, formVars, previewVars>>
TimecodeSpec == TimecodeInit /\ [][TimecodeNext]_vars

----------------------------------------------------------------------------
\* The dashboard when a swap and a binding edit are dispatched in one render
\* cycle
CycleInit == InitDash /\ BatchOff /\ InitApp /\ JobOff /\ InitForms /\ InitPreview
CycleNext ==
  \/ (\E a \in PresentTags, b \in PresentTags, t \in PresentTags :
        \E e \in BindingEdits(t) : SwapThenEdit(a, b, e))
       /\ UNCHANGED <<batchVars, appVars, srvVars, formVars, previewVars>>
  \/ (\E a \in PresentTags, b \in PresentTags, t \in PresentTags :
        \E e \in BindingEdits(t) : EditThenSwap(a, b, e))
       /\ UNCHANGED <<batchVars, appVars, srvVars, formVars, previewVars>>
CycleSpec == CycleInit /\ [][CycleNext]_vars

----------------------------------------------------------------------------
\* Claims about the speaker-identity resolver

Payloads(sp) == [i \in 1..Len(sp) |-> Payload(sp[i])]

Stats(s) ==
  [tag_id |-> s.tag_id, total_duration_ms |-> s.total_duration_ms,
   percentage |-> s.percentage, is_tech |-> s.is_tech]

SwapStep == lastOp'.op = "swap" /\ opCount' = opCount + 1

LastSwapPresent ==
  /\ lastOp.op = "swap"
  /\ FindIndex(speakers, lastOp.a) /= 0
  /\ FindIndex(speakers, lastOp.b) /= 0

LastSwapAbsent ==
  /\ lastOp.op = "swap"
  /\ (FindIndex(speakers, lastOp.a) = 0 \/ FindIndex(speakers, lastOp.b) = 0)

\* C1: in every reachable state, for every two present tags a and b
\* (a = b included), handleSwap(a, b) applied twice in succession gives every
\* speaker the candidate_id, custom_name and custom_abbr it had before.
C1_SwapInvolution ==
  \A a \in PresentTags, b \in PresentTags :
    LET once == SwapOutcome(speakers, a, b).speakers
        twice == SwapOutcome(once, a, b).speakers
    IN Payloads(twice) = Payloads(speakers)

\* the same handleSwap(a, b), a /= b, has just run twice in a row on two
\* tags whose bindings differ
C1_Witness ==
  /\ LastSwapPresent
  /\ lastOp.rep
  /\ lastOp.a /= lastOp.b
  /\ Payload(speakers[FindIndex(speakers, lastOp.a)])
       /= Payload(speakers[FindIndex(speakers, lastOp.b)])

\* C2: a handleSwap(a, b) step keeps the number and order of the speakers,
\* every speaker's tag_id, total_duration_ms, percentage and is_tech, the
\* whole record of every tag other than a and b, and every segment.
C2_SwapFrame ==
  [][SwapStep =>
       /\ Len(speakers') = Len(speakers)
       /\ \A i \in 1..Len(speakers) :
            /\ Stats(speakers'[i]) = Stats(speakers[i])
            /\ speakers[i].tag_id \notin {lastOp'.a, lastOp'.b}
                 => speakers'[i] = speakers[i]
       /\ segments' = segments
       /\ candidates' = candidates]_vars

\* a swap of two present tags with different bindings has run while a third
\* tag and the segments were there to be left alone
C2_Witness ==
  /\ LastSwapPresent
  /\ lastOp.a /= lastOp.b
  /\ Payload(speakers[FindIndex(speakers, lastOp.a)])
       /= Payload(speakers[FindIndex(speakers, lastOp.b)])
  /\ Len(speakers) >= 3
  /\ Len(segments) >= 1

\* C3 (as amended): handleSwap called with a tag that is absent from the
\* speaker list returns without raising any error and leaves the speakers
\* (and the objects of data.detected_speakers) unchanged.
C3_AbsentTagNoOp ==
  [][(SwapStep /\ (FindIndex(speakers, lastOp'.a) = 0 \/ FindIndex(speakers, lastOp'.b) = 0))
       => /\ lastOp'.threw = "none"
          /\ speakers' = speakers
          /\ dataSpeakers' = dataSpeakers]_vars

\* handleSwap has just run with an absent tag on a list that a swap of the
\* two first tags would change
C3_Witness ==
  /\ LastSwapAbsent
  /\ Len(speakers) >= 2
  /\ Payload(speakers[1]) /= Payload(speakers[2])

\* C3 (as claimed): after handleSwap with an absent tag the call has failed
\* with UnknownTag.
C3_AbsentTagFails ==
  LastSwapAbsent => lastOp.threw = "UnknownTag"

\* if (s.candidate_id): the mode the resolver reads the record in
CandidateBound(s) == Truthy(s.candidate_id)

UpdateStep == lastOp'.op = "update" /\ opCount' = opCount + 1

\* C16: in every reachable state, handleUpdateSpeaker(tag, field, value) on a
\* present tag leaves that tag with candidate_id null and the chosen field
\* (custom_name for 'name', custom_abbr for 'abbr') equal to value, keeps its
\* other custom field and its tag_id, total_duration_ms, percentage and
\* is_tech, and keeps the record of every other tag; and a step of the
\* handler changes the speakers in just this way and nothing else.
C16_OverrideDetaches ==
  /\ [](\A t \in PresentTags, f \in {"name", "abbr"}, v \in Values :
          LET after == UpdateSpeakerResult(speakers, t, f, v)
          IN /\ Len(after) = Len(speakers)
             /\ \A i \in 1..Len(speakers) :
                  IF speakers[i].tag_id = t
                  THEN /\ after[i].candidate_id = Null
                       /\ f = "name" => /\ after[i].custom_name = v
                                        /\ after[i].custom_abbr = speakers[i].custom_abbr
                       /\ f = "abbr" => /\ after[i].custom_abbr = v
                                        /\ after[i].custom_name = speakers[i].custom_name
                       /\ Stats(after[i]) = Stats(speakers[i])
                  ELSE after[i] = speakers[i])
  /\ [][UpdateStep =>
          /\ \E t \in PresentTags, f \in {"name", "abbr"}, v \in Values :
               speakers' = UpdateSpeakerResult(speakers, t, f, v)
          /\ \E i \in 1..Len(speakers) : speakers'[i].candidate_id = Null
          /\ segments' = segments
          /\ candidates' = candidates]_vars

\* an override has just detached one tag from its candidate and stored the
\* value, while another tag is still bound to its candidate
C16_Witness ==
  /\ lastOp.op = "update"
  /\ Len(speakers) >= 2
  /\ \E i \in 1..Len(speakers) :
        /\ speakers[i].candidate_id = Null
        /\ speakers[i].custom_abbr = <<"X">>
        /\ speakers[i].total_duration_ms > 0
  /\ \E j \in 1..Len(speakers) : CandidateBound(speakers[j])

\* the detected speakers of a non-empty response are on the dashboard
Loaded == speakersDict /= <<>> /\ Len(speakers) = Len(speakersDict)

RECURSIVE SumPercentages(_)
SumPercentages(sp) ==
  IF sp = <<>> THEN 0 ELSE Head(sp).percentage + SumPercentages(Tail(sp))

\* C18 as stated: for every non-empty response with non-negative integer
\* durations, the percentages of getVerificationData add up to a value
\* within numTags - 1 of 100.
C18_SumNear100 ==
  Loaded =>
    LET sum == SumPercentages(speakers)
        n == Len(speakers)
    IN 100 - (n - 1) <= sum /\ sum <= 100 + (n - 1)

\* C18 (amended): for every non-empty response with non-negative integer
\* durations whose total is positive, each tag's percentage is the integer
\* nearest to 100 * duration / total (a half rounds up) and the percentages
\* add up to a value within numTags - 1 of 100; when the total is 0, every
\* percentage is 0.
C18_PercentagesOfTotal ==
  Loaded =>
    LET total == SumDurations(speakersDict)
        sum == SumPercentages(speakers)
        n == Len(speakers)
    IN IF total > 0
       THEN /\ \A i \in 1..n :
                 LET p == speakers[i].percentage
                     d == speakersDict[i].duration_sec
                 IN /\ speakers[i].total_duration_ms = d * 1000
                    /\ 2 * (p * total - 100 * d) <= total
                    /\ 2 * (100 * d - p * total) < total
            /\ 100 - (n - 1) <= sum
            /\ sum <= 100 + (n - 1)
       ELSE \A i \in 1..n : speakers[i].percentage = 0

\* three tags whose shares were rounded (one of them from a half) and no
\* longer add up to 100
C18_Witness ==
  /\ Loaded
  /\ Len(speakers) = 3
  /\ SumDurations(speakersDict) = 8
  /\ speakers[1].percentage = 13
  /\ SumPercentages(speakers) = 101

SelectStep == lastOp'.op = "select" /\ opCount' = opCount + 1

\* C17: a step of handleCandidateSelect(tag, c) on a present tag changes no
\* other tag, no segment and no candidate; with c the id of a candidate, the
\* tag then resolves to that candidate's name and abbr in the speaker matrix,
\* in the preview (which prints the name in capitals) and in the export
\* mapping; with c = 'custom' the tag has candidate_id null and the
\* placeholder custom name and abbreviation, whatever its binding was.
C17_SelectRebinds ==
  [][SelectStep =>
       /\ segments' = segments
       /\ candidates' = candidates
       /\ Len(speakers') = Len(speakers)
       /\ \E t \in PresentTags :
            LET i == FindIndex(speakers, t)
            IN /\ \A j \in 1..Len(speakers) : j /= i => speakers'[j] = speakers[j]
               /\ speakers'[i].tag_id = t
               /\ \/ \E k \in 1..Len(candidates) :
                       /\ speakers' = CandidateSelectResult(speakers, candidates, t,
                                                            candidates[k].id)
                       /\ MatrixName(speakers'[i], candidates) = candidates[k].name
                       /\ MatrixAbbr(speakers'[i], candidates) = candidates[k].abbr
                       /\ PreviewAbbr(speakers', candidates, t) = candidates[k].abbr
                       /\ PreviewHeaderName(speakers'[i], candidates)
                            = ToUpperCase(candidates[k].name)
                       /\ ExportMappings(speakers', candidates)[i]
                            = [speaker_label |-> t, mapped_name |-> candidates[k].name,
                               abbreviation |-> candidates[k].abbr]
                  \/ /\ speakers' = CandidateSelectResult(speakers, candidates, t,
                                                          CustomChoice)
                     /\ speakers'[i].candidate_id = Null
                     /\ speakers'[i].custom_name = PlaceholderName
                     /\ speakers'[i].custom_abbr = PlaceholderAbbr]_vars

\* two selections have run: one tag is bound to another tag's candidate and
\* resolves to it, one tag holds the placeholder
C17_Witness ==
  /\ lastOp.op = "select"
  /\ opCount = 2
  /\ \E i \in 1..Len(speakers) :
        /\ speakers[i].candidate_id \notin {Null, speakers[i].tag_id}
        /\ MatrixName(speakers[i], candidates)
             = CandidateField(candidates, speakers[i].candidate_id, "name")
  /\ \E j \in 1..Len(speakers) :
        /\ speakers[j].candidate_id = Null
        /\ speakers[j].custom_name = PlaceholderName

DownloadStep == lastOp'.op = "download" /\ opCount' = opCount + 1

\* the name and abbreviation a record is bound to: its candidate's, or its
\* own custom values
BoundValue(s, field) ==
  IF CandidateBound(s)
  THEN LET k == CHOOSE k \in 1..Len(candidates) : candidates[k].id = s.candidate_id
       IN IF field = "name" THEN candidates[k].name ELSE candidates[k].abbr
  ELSE IF field = "name" THEN s.custom_name ELSE s.custom_abbr

C20_PreviewMatchesExport ==
  \A i \in 1..Len(speakers) :
    LET entry == ExportMappings(speakers, candidates)[i]
    IN /\ entry.speaker_label = speakers[i].tag_id
       /\ PreviewAbbr(speakers, candidates, speakers[i].tag_id) = entry.abbreviation
       /\ MatrixName(speakers[i], candidates) = entry.mapped_name

----------------------------------------------------------------------------
\* the name and abbreviation of a tag in the preview and in the export
\* mapping
Resolved(sp, tagId) ==
  LET s == sp[FindIndex(sp, tagId)]
  IN [previewName |-> PreviewHeaderName(s, candidates),
      previewAbbr |-> PreviewAbbr(sp, candidates, tagId),
      exportName |-> MappingEntry(s, candidates).name,
      exportAbbr |-> MappingEntry(s, candidates).abbreviation]

DistinctSwapStep ==
  /\ SwapStep
  /\ lastOp'.a /= lastOp'.b
  /\ FindIndex(speakers, lastOp'.a) /= 0
  /\ FindIndex(speakers, lastOp'.b) /= 0

\* C21: a step handleSwap(a, b) on two distinct present tags, from
\* any reachable binding state, gives a the name and abbreviation b had in
\* the preview and in the export mapping and b those a had, and keeps the
\* segments.
C21_SwapExchangesResolved ==
  [][DistinctSwapStep =>
       /\ Resolved(speakers', lastOp'.a) = Resolved(speakers, lastOp'.b)
       /\ Resolved(speakers', lastOp'.b) = Resolved(speakers, lastOp'.a)
       /\ segments' = segments]_vars

----------------------------------------------------------------------------

EditStep == lastOp'.op = "edit" /\ opCount' = opCount + 1

\* C22: a step of handleEditSegment(i, text) replaces the text of segment i
\* alone: the number and order of the segments, every segment's timecode and
\* tag_id and the whole of every other segment stay as they were; and no
\* step at all changes data.preview_transcript.
C22_EditIsLocal ==
  [][/\ EditStep =>
          /\ Len(segments') = Len(segments)
          /\ \A j \in 1..Len(segments) :
               /\ segments'[j].timecode = segments[j].timecode
               /\ segments'[j].tag_id = segments[j].tag_id
          /\ \E i \in 1..Len(segments) :
               \A j \in 1..Len(segments) : j /= i => segments'[j] = segments[j]
          /\ speakers' = speakers
     /\ dataSegments' = dataSegments]_vars

\* two edits have run and the shown text of a segment differs from the text
\* the backend sent, which data.preview_transcript still holds
C22_Witness ==
  /\ lastOp.op = "edit"
  /\ opCount = 2
  /\ Len(segments) = Len(dataSegments)
  /\ \E i \in 1..Len(segments) :
        /\ segments[i].text /= dataSegments[i].text
        /\ segments[i].timecode = dataSegments[i].timecode
        /\ dataSegments[i].text \in Texts

----------------------------------------------------------------------------

\* the segment texts the export service can put into the document: those of
\* the request when it carries segments, otherwise the ones of the job, which
\* it sent as result.segments
ExportedTexts(req) ==
  IF "segments" \in DOMAIN req
  THEN [i \in 1..Len(req.segments) |-> req.segments[i].text]
  ELSE [i \in 1..Len(dataSegments) |-> dataSegments[i].text]

\* the texts of the lines of the preview
PreviewTexts == [i \in 1..Len(segments) |-> segments[i].text]

\* C23: a step of handleDownload sends a request from which the export
\* produces the texts shown in the preview, the reviewer's text edits
\* included.
C23_ExportCarriesEdits ==
  [][DownloadStep => ExportedTexts(exportRequest') = PreviewTexts]_vars

----------------------------------------------------------------------------

\* the row the rendering rule asks for segment idx
RuleRow(idx) ==
  IF Len(segments[idx].text) >= 1 /\ Head(segments[idx].text) = "("
  THEN [kind |-> "text", italic |-> TRUE,
        parts |-> <<segments[idx].timecode, segments[idx].text>>]
  ELSE [kind |-> "text", italic |-> FALSE,
        parts |-> <<segments[idx].timecode,
                    PreviewAbbr(speakers, candidates, segments[idx].tag_id) \o <<":">>,
                    segments[idx].text>>]

----------------------------------------------------------------------------

DigitValue(c) == (CHOOSE k \in 1..10 : Digits[k] = c) - 1

\* the number a two-digit field of a timecode stands for
FieldValue(tc, from) == 10 * DigitValue(tc[from]) + DigitValue(tc[from + 1])

\* C25: the timecode of every offset is HH:MM:SS:FF with two digits in each
\* field, FF in 00..24, SS and MM in 00..59, and it stands for the frame
\* count floor(offsetMs * 25 / 1000); Timecode(0) = 00:00:00:00,
\* Timecode(1000) = 00:00:01:00, Timecode(1040) = 00:00:01:01; and every
\* segment of the loaded project, in data.preview_transcript and on the
\* screen, carries the timecode of its offset unchanged, also after edits.
C25_TimecodeFormat ==
  /\ Timecode(0) = <<"0", "0", ":", "0", "0", ":", "0", "0", ":", "0", "0">>
  /\ Timecode(1000) = <<"0", "0", ":", "0", "0", ":", "0", "1", ":", "0", "0">>
  /\ Timecode(1040) = <<"0", "0", ":", "0", "0", ":", "0", "1", ":", "0", "1">>
  /\ \A i \in 1..Len(offsets) :
       LET tc == Timecode(offsets[i])
       IN /\ Len(tc) = 11
          /\ \A k \in {3, 6, 9} : tc[k] = ":"
          /\ \A k \in {1, 2, 4, 5, 7, 8, 10, 11} : \E d \in 1..10 : tc[k] = Digits[d]
          /\ FieldValue(tc, 10) \in 0..24
          /\ FieldValue(tc, 7) \in 0..59
          /\ FieldValue(tc, 4) \in 0..59
          /\ 25 * (3600 * FieldValue(tc, 1) + 60 * FieldValue(tc, 4) + FieldValue(tc, 7))
               + FieldValue(tc, 10)
              = (offsets[i] * 25) \div 1000
  /\ segments /= <<>> =>
       /\ Len(segments) = Len(offsets)
       /\ \A i \in 1..Len(segments) :
            /\ segments[i].timecode = Timecode(offsets[i])
            /\ dataSegments[i].timecode = Timecode(offsets[i])

\* a loaded project whose first segment starts one frame after the first
\* second and whose second segment starts on the last frame of the first hour,
\* after a text edit
C25_Witness ==
  /\ Len(segments) = 2
  /\ offsets = <<1040, 3599960>>
  /\ segments[1].timecode = <<"0", "0", ":", "0", "0", ":", "0", "1", ":", "0", "1">>
  /\ segments[2].timecode = <<"0", "0", ":", "5", "9", ":", "5", "9", ":", "2", "4">>
  /\ lastOp.op = "edit"

----------------------------------------------------------------------------

CycleStep == lastOp'.op = "cycle" /\ opCount' = opCount + 1

----------------------------------------------------------------------------

\* the name of a record as the speaker matrix, the preview header and the
\* export mapping show it
ShownName(s) ==
  [matrix |-> MatrixName(s, candidates),
   preview |-> PreviewHeaderName(s, candidates),
   export |-> MappingEntry(s, candidates).name]

\* the abbreviation of a record as the speaker matrix, the preview and the
\* export mapping show it
ShownAbbr(sp, i) ==
  [matrix |-> MatrixAbbr(sp[i], candidates),
   preview |-> PreviewAbbr(sp, candidates, sp[i].tag_id),
   export |-> MappingEntry(sp[i], candidates).abbreviation]

\* C27: every handleUpdateSpeaker(tag, 'abbr', value) step on a candidate-bound
\* tag leaves the name shown for the tag (speaker matrix, preview header,
\* export mapping) as it was, and every handleUpdateSpeaker(tag, 'name', value)
\* step leaves the abbreviation shown for it as it was.
C27_OtherFieldKept ==
  [][UpdateStep =>
       \A i \in 1..Len(speakers), v \in Values :
         /\ ( /\ CandidateBound(speakers[i])
              /\ speakers' = UpdateSpeakerResult(speakers, speakers[i].tag_id, "abbr", v) )
            => ShownName(speakers'[i]) = ShownName(speakers[i])
         /\ ( /\ CandidateBound(speakers[i])
              /\ speakers' = UpdateSpeakerResult(speakers, speakers[i].tag_id, "name", v) )
            => ShownAbbr(speakers', i) = ShownAbbr(speakers, i)]_vars

----------------------------------------------------------------------------

\* C28: no handleSwap, handleUpdateSpeaker, handleCandidateSelect or
\* handleEditSegment step modifies the ProjectData the dashboard was given:
\* data.detected_speakers, data.candidates and data.preview_transcript are
\* after the step what they were before it.
C28_ProjectDataKept ==
  [][(SwapStep \/ UpdateStep \/ SelectStep \/ EditStep) =>
       /\ dataSpeakers' = dataSpeakers
       /\ candidates' = candidates
       /\ dataSegments' = dataSegments]_vars

----------------------------------------------------------------------------

\* C29: once the batch view is in 'done', no step changes the completed
\* count, the error count, the files of the last response or the status shown
\* for any file, whatever the order in which the status responses arrive.
C29_DoneIsFrozen ==
  [][bState = "done" =>
       /\ bState' = "done"
       /\ completedCount' = completedCount
       /\ errorCount' = errorCount
       /\ batchFiles' = batchFiles
       /\ \A i \in 1..Len(trackers) : FileStatus(i)' = FileStatus(i)]_vars

----------------------------------------------------------------------------

\* the screen changes allowed: the cycle, and PROCESSING back to IDLE
ScreenMoves ==
  { <<"IDLE", "PROCESSING">>, <<"PROCESSING", "VERIFICATION">>,
    <<"VERIFICATION", "COMPLETED">>, <<"COMPLETED", "IDLE">>,
    <<"PROCESSING", "IDLE">> }

\* a submission is in flight: handleUpload has started and not returned
SubmissionInFlight == apc /= "idle"

\* C30: the screen state changes only along IDLE -> PROCESSING ->
\* VERIFICATION -> COMPLETED -> IDLE or from PROCESSING back to IDLE;
\* VERIFICATION is entered only from a state where 'completed' was the
\* observed status and with the project data set; COMPLETED is entered only
\* by a successful export, and a failed export leaves VERIFICATION; a
\* submission is in flight only while the screen is PROCESSING and a new one
\* starts only when none is in flight.
C30_ScreenCycle ==
  /\ [](SubmissionInFlight => status = "PROCESSING")
  /\ [][/\ status' /= status => <<status, status'>> \in ScreenMoves
        /\ (status' = "VERIFICATION" /\ status /= "VERIFICATION")
             => (observed.status = "completed" /\ projectData')
        /\ (status' = "COMPLETED" /\ status /= "COMPLETED")
             => (lastToast' = "success" /\ toastText' = ExportDoneText)
        /\ (status = "VERIFICATION" /\ toastText' = ExportFailedText)
             => status' = "VERIFICATION"
        /\ submissions' /= submissions => (~SubmissionInFlight /\ SubmissionInFlight')]_vars

\* a whole cycle has run: a second submission is being processed after the
\* first one was exported
C30_Witness ==
  /\ submissions = 2
  /\ status = "PROCESSING"
  /\ lastToast = "success"
  /\ toastText = ExportDoneText

----------------------------------------------------------------------------

\* Claims about the batch uploader and the batch poller

InFlight == { j \in 1..nFiles : upSt[j] = "inflight" }
Waiting == { j \in 1..nFiles : upSt[j] = "waiting" }
Finished == { j \in 1..nFiles : upSt[j] = "finished" }

HasOneOutcome(t) == Truthy(t.projectId) /= Truthy(t.uploadError)

\* C4: at no moment are more than CONCURRENT_UPLOADS (3) files in flight,
\* whatever the number of submitted files (up to MaxFiles = 10 here).
C4_AtMostThreeInFlight == Cardinality(InFlight) <= CONCURRENT_UPLOADS

\* ten files submitted, three in flight, some finished and some waiting
C4_Witness ==
  /\ nFiles = 10
  /\ Cardinality(InFlight) = CONCURRENT_UPLOADS
  /\ Finished /= {}
  /\ Waiting /= {}

\* C5 (as claimed): while the uploads run, a waiting file is admitted as
\* soon as fewer than 3 files are in flight.
C5_SlotFreesImmediately ==
  (upc = "uploading" /\ ~cancelled)
    => ~(Waiting /= {} /\ Cardinality(InFlight) < CONCURRENT_UPLOADS)

\* C5 (as amended): files are admitted batch by batch. The files in flight
\* all belong to one batch of at most 3 consecutive files, every waiting file
\* belongs to a later batch than every admitted file, and the next batch is
\* admitted at the moment the last file of the current batch finishes, so
\* the upload loop never stands with nothing in flight.
C5_BatchAdmission ==
  /\ [](\A j \in InFlight, k \in InFlight : BatchStart(j) = BatchStart(k))
  /\ [](\A w \in Waiting, j \in InFlight \cup Finished : BatchStart(j) < BatchStart(w))
  /\ [](upc = "uploading" => InFlight /= {})
  /\ [][\A j \in 1..nFiles :
          (upSt[j] = "waiting" /\ upSt'[j] = "inflight")
            => \A k \in 1..nFiles : upSt[k] = "inflight" => upSt'[k] = "finished"]_vars

\* the second batch is partly finished, a file of it is still in flight and
\* the third batch is waiting for it
C5_Witness ==
  /\ Waiting /= {}
  /\ \E j \in InFlight : BatchStart(j) > 1
  /\ Cardinality(InFlight) < CONCURRENT_UPLOADS
  /\ \E k \in Finished : \E j \in InFlight : BatchStart(k) = BatchStart(j)

UploadEnded == upc = "ended" /\ ~cancelled /\ doneBy /= "preload"

\* C6: a failed upload stops nothing. While the loop runs something is always
\* in flight; every file that has finished holds exactly one outcome (project
\* id or upload error); when the upload phase ends every file has finished
\* with exactly one outcome; a file is shown as failed exactly when its own
\* upload failed; and when at least one file succeeded the processing phase
\* starts, polling exactly the ids of the files that succeeded.
C6_FailureIsolation ==
  /\ upc = "uploading" => InFlight /= {}
  /\ \A j \in Finished : HasOneOutcome(updated[j])
  /\ UploadEnded => \A j \in 1..nFiles : j \in Finished /\ HasOneOutcome(trackers[j])
  /\ doneBy /= "preload" =>
       \A j \in 1..nFiles :
         (FileStatus(j).status = "error") <=> Truthy(trackers[j].uploadError)
  /\ (UploadEnded /\ \E j \in 1..nFiles : Truthy(trackers[j].projectId)) =>
       /\ bState = "processing"
       /\ pollsIssued >= 1
       /\ { projectIds[k] : k \in 1..Len(projectIds) }
            = { ProjectId(j) : j \in { i \in 1..nFiles : ~Truthy(trackers[i].uploadError) } }

\* a file of the first batch failed, its siblings and a file of a later
\* batch succeeded, and the processing phase has started
C6_Witness ==
  /\ nFiles >= 5
  /\ UploadEnded
  /\ Truthy(trackers[1].uploadError)
  /\ Truthy(trackers[2].projectId)
  /\ Truthy(trackers[3].projectId)
  /\ Truthy(trackers[4].projectId)
  /\ Truthy(trackers[5].uploadError)
  /\ bState = "processing"

PollStopStep == bState = "processing" /\ bState' = "done"

C8_PollUntilDone ==
  /\ [](pollsIssued > 0 =>
          /\ Len(projectIds) = Cardinality({ j \in 1..nFiles : Truthy(updated[j].projectId) })
          /\ \A k \in 1..Len(projectIds) :
               \E j \in 1..nFiles : updated[j].projectId = projectIds[k])
  /\ []((bState = "processing" /\ ~cancelled) => pollActive)
  /\ [][PollStopStep =>
          \E r \in responses : r \notin responses' /\ r.in_progress = 0]_vars
  /\ [](bState = "done" => ~pollActive)
  /\ [][bState = "done" => (pollsIssued' = pollsIssued /\ bState' = "done")]_vars
  /\ [](doneBy = "noIds" =>
          pollsIssued = 0 /\ \A j \in 1..nFiles : ~Truthy(trackers[j].projectId))
  /\ []((UploadEnded /\ \A j \in 1..nFiles : ~Truthy(trackers[j].projectId))
          => bState = "done")

\* one file failed to upload, the other was polled twice before the response
\* with in_progress = 0 arrived
C8_Witness ==
  /\ bState = "done"
  /\ doneBy = "poll"
  /\ pollsIssued = 2
  /\ requests = {}
  /\ \E j \in 1..nFiles : Truthy(trackers[j].uploadError)
  /\ Len(projectIds) = 1

----------------------------------------------------------------------------
\* Claims about api.pollStatus and App

\* C9: no timer and no abort listener stays registered once the wait it was
\* created for has ended, by timeout or by abort.
C9_NoOrphanedCallback ==
  \A k \in timers \cup listeners : apc = "waiting" /\ k = pollIter

\* C10: once the user has cancelled a submission, the app never shows
\* VERIFICATION (nor COMPLETED) for it.
C10_AbortHonoured ==
  aborted => status \notin {"VERIFICATION", "COMPLETED"}

\* The two submission forms in front of the single-job flow
FormInit == DashOff /\ BatchOff /\ InitApp /\ JobOff /\ InitForms /\ InitPreview
FormNext ==
  \/ (\E v \in Links : ChangeLink(v)) /\ UNCHANGED <<dashVars, batchVars, srvVars, previewVars>>
  \/ SubmitLink /\ UNCHANGED <<dashVars, batchVars, srvVars, previewVars>>
  \/ (\E fl \in FileLists : HandleFileSelect(fl))
       /\ UNCHANGED <<dashVars, batchVars, appVars, srvVars, previewVars>>
  \/ (\E i \in 1..Len(files) : HandleRemoveFile(i))
       /\ UNCHANGED <<dashVars, batchVars, appVars, srvVars, previewVars>>
  \/ SubmitBatch /\ UNCHANGED <<dashVars, batchVars, appVars, srvVars, previewVars>>
  \/ (\E ok \in BOOLEAN : UploadFileSettles(ok))
       /\ UNCHANGED <<dashVars, batchVars, srvVars, formVars, previewVars>>
  \/ (\E resp \in {"completed", "error"} : \E err \in ErrorsWith(resp) : StatusResponse(resp, err))
       /\ UNCHANGED <<dashVars, batchVars, srvVars, formVars, previewVars>>
  \/ HandleCancel /\ UNCHANGED <<dashVars, batchVars, srvVars, formVars, previewVars>>
  \/ (\E ok \in BOOLEAN : ResultSettles(ok))
       /\ UNCHANGED <<dashVars, batchVars, srvVars, formVars, previewVars>>
  \/ (\E ok \in BOOLEAN : ExportSettles(ok))
       /\ UNCHANGED <<dashVars, batchVars, srvVars, formVars, previewVars>>
  \/ NextFile /\ UNCHANGED <<dashVars, batchVars, srvVars, formVars, previewVars>>
FormSpec == FormInit /\ [][FormNext]_vars

Polling == apc \in {"statusFetch", "waiting"}

\* a status response is read and acted upon in this step
StatusReadStep == apc = "statusFetch" /\ apc' /= "statusFetch" /\ aborted' = aborted

C12_NoLeakPastError ==
  observed.status = "error" =>
    /\ apc = "idle"
    /\ status = "IDLE"
    /\ timers = {}
    /\ ~abortRef
    /\ lastToast = "error"
    /\ toastText = IF observed.error \in {Undefined, <<>>} THEN GenericServerError
                                                          ELSE observed.error

\* after at least one wait, a status response reported 'error' with a
\* recorded message
C12_Witness ==
  /\ observed.status = "error"
  /\ observed.error \notin {Undefined, <<>>}
  /\ pollIter >= 2
  /\ toastText = observed.error

\* C13: a failed status request is retried before it is surfaced: when the
\* user is shown the status-request failure, pollStatus has sent the request
\* at least twice.
C13_RetryBeforeSurfacing ==
  (lastToast = "error" /\ toastText = StatusFailedText) => pollIter >= 2

----------------------------------------------------------------------------
\* Claims about client validation

\* a trimmed, non-empty link that names Yandex.Disk
WellFormedLink(u) ==
  /\ u /= <<>>
  /\ Head(u) \notin Whitespace
  /\ u[Len(u)] \notin Whitespace
  /\ \/ \E i \in 1..Len(u) : i + 6 <= Len(u) /\ SubSeq(u, i, i + 6) = YadiSk
     \/ \E i \in 1..Len(u) : i + 10 <= Len(u) /\ SubSeq(u, i, i + 10) = DiskYandex

\* C14: whatever link is typed, UploadForm.handleSubmit calls onUpload
\* exactly when the trimmed text is non-empty and contains 'yadi.sk' or
\* 'disk.yandex', passes the trimmed text, and otherwise sets an error; every
\* POST /projects
\* carries such a link; a step that sets a form error issues no request and
\* leaves the app in IDLE; onStartBatch is called only with a non-empty
\* selection, and an empty one sets an error and starts nothing.
C14_ValidatedBeforeJob ==
  /\ [](LET out == SubmitOutcome(link)
         IN /\ (out.upload /= Undefined) <=> WellFormedLink(Trim(link))
            /\ out.upload /= Undefined => (out.upload = Trim(link) /\ out.error = Undefined)
            /\ out.upload = Undefined => Truthy(out.error))
  /\ [](posted /= <<>> => WellFormedLink(posted[1]))
  /\ [][submissions' /= submissions =>
          (WellFormedLink(Trim(link)) /\ posted' = <<Trim(link)>>)]_vars
  /\ [][(linkError' /= linkError /\ linkError' /= <<>>) =>
          /\ ~WellFormedLink(Trim(link))
          /\ submissions' = submissions
          /\ posted' = posted
          /\ apc' = "idle"
          /\ status' = "IDLE"]_vars
  /\ [](startedBatch /= <<>> => Len(startedBatch[1]) > 0)
  /\ [][startedBatch' /= startedBatch =>
          (Len(files) > 0 /\ startedBatch' = <<files>>)]_vars
  /\ [][(filesError' /= filesError /\ filesError' = NoFilesChosenText) =>
          (Len(files) = 0 /\ startedBatch' = startedBatch)]_vars

\* a link typed with surrounding blanks was posted trimmed, a later link was
\* rejected, a batch was started and an empty selection was rejected
C14_Witness ==
  /\ posted /= <<>>
  /\ linkError = BadLinkText
  /\ link /= <<>>
  /\ submissions = 1
  /\ startedBatch /= <<>>
  /\ files = <<>>
  /\ filesError = NoFilesChosenText

====
